---- MODULE Spec2Model ----
(***************************************************************************)
(* Cross-chain USDC/USDT arbitrage bot (src/src/index.ts, src/src/config.ts).*)
(*                                                                         *)
(* The model follows the first (current) copy of the program in            *)
(* src/src/index.ts, lines 1-787.                                          *)
(*                                                                         *)
(* Numbers.  A JavaScript `number` is an IEEE-754 double: it is modelled   *)
(* by the rational it denotes, or by one of the special values +Infinity,  *)
(* -Infinity and NaN, and every arithmetic operation rounds its exact      *)
(* result to the nearest double, ties to even.  Subnormal doubles, the     *)
(* overflow of finite results and the sign of zero are not modelled.  A    *)
(* JavaScript `bigint` is modelled exactly, as a sign and a magnitude.     *)
(* Magnitudes are little-endian sequences of limbs in base 2^15, because   *)
(* the integers of the model checker are 32 bits wide.                     *)
(***************************************************************************)
EXTENDS Integers, Sequences, FiniteSets, TLC

(***************************************************************************)
(* Natural numbers of unbounded width (the magnitudes).                    *)
(***************************************************************************)
Base == 2^15

RECURSIVE NatOf(_)
NatOf(i) == IF i = 0 THEN <<>> ELSE <<i % Base>> \o NatOf(i \div Base)

RECURSIVE NTrim(_)
NTrim(a) == IF a = <<>> THEN a
            ELSE IF a[Len(a)] = 0 THEN NTrim(SubSeq(a, 1, Len(a) - 1)) ELSE a

Limb(a, i) == IF i <= Len(a) THEN a[i] ELSE 0

RECURSIVE NAddC(_, _, _, _)
NAddC(a, b, i, c) ==
    IF i > Len(a) /\ i > Len(b) THEN (IF c = 0 THEN <<>> ELSE <<c>>)
    ELSE LET x == Limb(a, i) + Limb(b, i) + c
         IN  <<x % Base>> \o NAddC(a, b, i + 1, x \div Base)

NAdd(a, b) == NAddC(a, b, 1, 0)

RECURSIVE NSubC(_, _, _, _)
NSubC(a, b, i, c) ==
    IF i > Len(a) THEN <<>>
    ELSE LET x == a[i] - Limb(b, i) - c
         IN  IF x < 0 THEN <<x + Base>> \o NSubC(a, b, i + 1, 1)
                      ELSE <<x>> \o NSubC(a, b, i + 1, 0)

\* a - b for a >= b
NSub(a, b) == NTrim(NSubC(a, b, 1, 0))

RECURSIVE NMulSmallC(_, _, _, _)
NMulSmallC(a, k, i, c) ==
    IF i > Len(a) THEN (IF c = 0 THEN <<>> ELSE <<c>>)
    ELSE LET x == a[i] * k + c
         IN  <<x % Base>> \o NMulSmallC(a, k, i + 1, x \div Base)

\* a * k for a limb k
NMulSmall(a, k) == IF k = 0 \/ a = <<>> THEN <<>> ELSE NMulSmallC(a, k, 1, 0)

RECURSIVE NMulAcc(_, _, _)
NMulAcc(a, b, i) ==
    IF i > Len(b) THEN <<>>
    ELSE NAdd(NMulSmall(a, b[i]), <<0>> \o NMulAcc(a, b, i + 1))

NMul(a, b) == IF a = <<>> \/ b = <<>> THEN <<>> ELSE NTrim(NMulAcc(a, b, 1))

RECURSIVE NCmpAt(_, _, _)
NCmpAt(a, b, i) == IF i = 0 THEN 0
                   ELSE IF a[i] > b[i] THEN 1
                   ELSE IF a[i] < b[i] THEN -1
                   ELSE NCmpAt(a, b, i - 1)

\* -1, 0, 1 as a < b, a = b, a > b
NCmp(a, b) == IF Len(a) > Len(b) THEN 1
              ELSE IF Len(a) < Len(b) THEN -1
              ELSE NCmpAt(a, b, Len(a))

\* a * 2^k
NShl(a, k) == IF a = <<>> THEN <<>>
              ELSE [i \in 1..(k \div 15) |-> 0] \o NMulSmall(a, 2^(k % 15))

NDropLow(a, k) == IF k >= Len(a) THEN <<>> ELSE SubSeq(a, k + 1, Len(a))

\* a \div 2^r for r < 15, limb by limb from the top; c is what the limb
\* above left behind
RECURSIVE NShrAt(_, _, _, _)
NShrAt(a, r, i, c) ==
    IF i = 0 THEN <<>>
    ELSE LET x == c * Base + a[i]
         IN  NShrAt(a, r, i - 1, x % 2^r) \o <<x \div 2^r>>

\* a \div 2^k
NShr(a, k) == NTrim(NShrAt(NDropLow(a, k \div 15), k % 15,
                           Len(NDropLow(a, k \div 15)), 0))

\* bit i of a, the lowest being bit 0
NBit(a, i) == (Limb(a, i \div 15 + 1) \div 2^(i % 15)) % 2

\* a % 2^k = 0
NLowZero(a, k) == /\ \A j \in 1..(k \div 15) : Limb(a, j) = 0
                  /\ Limb(a, k \div 15 + 1) % 2^(k % 15) = 0

NEven(a) == a = <<>> \/ a[1] % 2 = 0

\* the number of bits of a limb and of a magnitude
RECURSIVE LimbBits(_)
LimbBits(v) == IF v = 0 THEN 0 ELSE 1 + LimbBits(v \div 2)

NBitLen(a) == IF a = <<>> THEN 0 ELSE 15 * (Len(a) - 1) + LimbBits(a[Len(a)])

\* the number of zero bits below the lowest one bit, of a limb v > 0 and of
\* a magnitude a > 0
RECURSIVE LimbLowZeros(_)
LimbLowZeros(v) == IF v % 2 = 1 THEN 0 ELSE 1 + LimbLowZeros(v \div 2)

RECURSIVE NLowZerosAt(_, _)
NLowZerosAt(a, i) == IF a[i] = 0 THEN 15 + NLowZerosAt(a, i + 1)
                     ELSE LimbLowZeros(a[i])

NLowZeros(a) == NLowZerosAt(a, 1)

\* the digit dg of a long division, lo <= dg <= hi: the greatest with
\* b * dg <= r
RECURSIVE NDigit(_, _, _, _)
NDigit(r, b, lo, hi) ==
    IF lo = hi THEN lo
    ELSE LET mid == (lo + hi + 1) \div 2
         IN  IF NCmp(NMulSmall(b, mid), r) <= 0 THEN NDigit(r, b, mid, hi)
                                                 ELSE NDigit(r, b, lo, mid - 1)

\* what the two top limbs of r and the top limb of b say of the digit: when
\* the top bit of b is set the digit is this or at most two less
NDigitTop(r, b) ==
    (Limb(r, Len(b) + 1) * Base + Limb(r, Len(b))) \div b[Len(b)]

NDigitMax(top) == IF top > Base - 1 THEN Base - 1 ELSE top

NDigitMin(top) == IF NDigitMax(top) < 2 THEN 0 ELSE NDigitMax(top) - 2

\* schoolbook long division: r is the running remainder, q the quotient limbs
\* found so far, i the limb of a brought down next
RECURSIVE NDivAt(_, _, _, _, _)
NDivPut(a, b, i, r1, dg, q) ==
    IF dg = 0 THEN NDivAt(a, b, i - 1, r1, <<0>> \o q)
    ELSE NDivAt(a, b, i - 1, NSub(r1, NMulSmall(b, dg)), <<dg>> \o q)

NDivEst(a, b, i, r1, q, top) ==
    NDivPut(a, b, i, r1, NDigit(r1, b, NDigitMin(top), NDigitMax(top)), q)

NDivLimb(a, b, i, r1, q) == NDivEst(a, b, i, r1, q, NDigitTop(r1, b))

NDivAt(a, b, i, r, q) ==
    IF i = 0 THEN [q |-> NTrim(q), r |-> r]
    ELSE NDivLimb(a, b, i, NTrim(<<a[i]>> \o r), q)

\* the division of a * 2^t by b * 2^t, the top bit of b * 2^t set
NDivNorm(a, b, t) == NDivAt(NShl(a, t), NShl(b, t), Len(NShl(a, t)), <<>>, <<>>)

NDivUnNorm(qr, t) == [q |-> qr.q, r |-> NShr(qr.r, t)]

NDivBy(a, b, t) == NDivUnNorm(NDivNorm(a, b, t), t)

\* quotient and remainder of a by b, b > 0
NDivMod(a, b) == NDivBy(a, b, 15 - LimbBits(b[Len(b)]))

RECURSIVE NPow(_, _)
NPow(a, e) == IF e = 0 THEN <<1>> ELSE NMul(a, NPow(a, e - 1))

Pow10(e) == NPow(<<10>>, e)

(***************************************************************************)
(* JavaScript numbers: [k, s, m, e] with k the kind ("fin", "inf", "nan"), *)
(* s the sign (-1, 0, 1) and, for a finite value, the magnitude m * 2^e of *)
(* a double: m is odd and has at most 53 bits.                             *)
(***************************************************************************)
Zero == [k |-> "fin", s |-> 0, m |-> <<>>, e |-> 0]
NaN == [k |-> "nan", s |-> 0, m |-> <<>>, e |-> 0]
Inf(s) == [k |-> "inf", s |-> s, m |-> <<>>, e |-> 0]

\* s * n * 2^e with the low zero bits of n moved into the exponent
FlOdd(s, n, e, z) == [k |-> "fin", s |-> s, m |-> NShr(n, z), e |-> e + z]

FlExact(s, n, e) == FlOdd(s, n, e, NLowZeros(n))

\* round to nearest, ties to even: half is the first discarded bit, low says
\* that a later one is set
FlUp(s, q, e, half, low) ==
    FlExact(s, IF half /\ (low \/ ~NEven(q)) THEN NAdd(q, <<1>>) ELSE q, e)

\* n * 2^e cut to 53 bits, sh the number of bits cut
FlCut(s, n, e, sticky, sh) ==
    IF sh <= 0 THEN FlExact(s, n, e)
    ELSE FlUp(s, NShr(n, sh), e + sh, NBit(n, sh - 1) = 1,
              sticky \/ ~NLowZero(n, sh - 1))

\* The double nearest to s * (n + f) * 2^e, where 0 <= f < 1 and sticky says
\* that f > 0; n has 55 bits or more whenever sticky.
FlBits(s, n, e, sticky) ==
    IF n = <<>> \/ s = 0 THEN Zero
    ELSE FlCut(s, n, e, sticky, NBitLen(n) - 53)

FlQuot(s, qr, e) == FlBits(s, qr.q, e, qr.r # <<>>)

\* n * 2^sh / d has a quotient of 55 bits or more
FlScaled(s, n, d, e, sh) == FlQuot(s, NDivMod(NShl(n, sh), d), e - sh)

FlShift(n, d) == IF 55 + NBitLen(d) - NBitLen(n) > 0
                 THEN 55 + NBitLen(d) - NBitLen(n) ELSE 0

\* the double nearest to s * (n / d) * 2^e, d > 0
FlRatio(s, n, d, e) ==
    IF n = <<>> \/ s = 0 THEN Zero ELSE FlScaled(s, n, d, e, FlShift(n, d))

\* the double nearest to s * n / d, d > 0
MkFin(s, n, d) == FlRatio(s, n, d, 0)

\* the decimal literal i / j, for integers i and j > 0
Dec(i, j) == MkFin(IF i < 0 THEN -1 ELSE IF i = 0 THEN 0 ELSE 1,
                   NatOf(IF i < 0 THEN -i ELSE i), NatOf(j))

One == Dec(1, 1)

NumNeg(a) == [a EXCEPT !.s = 0 - a.s]

NumAbs(a) == [a EXCEPT !.s = IF a.s = 0 THEN 0 ELSE 1]

NumMul(a, b) ==
    IF a.k = "nan" \/ b.k = "nan" THEN NaN
    ELSE IF a.k = "inf" \/ b.k = "inf"
         THEN (IF a.s = 0 \/ b.s = 0 THEN NaN ELSE Inf(a.s * b.s))
         ELSE FlBits(a.s * b.s, NMul(a.m, b.m), a.e + b.e, FALSE)

NumDiv(a, b) ==
    IF a.k = "nan" \/ b.k = "nan" THEN NaN
    ELSE IF b.k = "inf" THEN (IF a.k = "inf" THEN NaN ELSE Zero)
    ELSE IF a.k = "inf" THEN Inf(IF b.s = -1 THEN 0 - a.s ELSE a.s)
    ELSE IF b.s = 0 THEN (IF a.s = 0 THEN NaN ELSE Inf(a.s))
    ELSE FlRatio(a.s * b.s, a.m, b.m, a.e - b.e)

\* sa * x * 2^e + sb * y * 2^e for signs sa, sb # 0, with c the order of x
\* and y
NumAddCmp(sa, sb, x, y, e, c) ==
    IF sa = sb THEN FlBits(sa, NAdd(x, y), e, FALSE)
    ELSE IF c = 0 THEN Zero
    ELSE IF c = 1 THEN FlBits(sa, NSub(x, y), e, FALSE)
    ELSE FlBits(sb, NSub(y, x), e, FALSE)

NumAddFin(sa, sb, x, y, e) == NumAddCmp(sa, sb, x, y, e, NCmp(x, y))

NumAddAt(a, b, e) ==
    NumAddFin(a.s, b.s, NShl(a.m, a.e - e), NShl(b.m, b.e - e), e)

NumAdd(a, b) ==
    IF a.k = "nan" \/ b.k = "nan" THEN NaN
    ELSE IF a.k = "inf" THEN (IF b.k = "inf" /\ b.s # a.s THEN NaN ELSE a)
    ELSE IF b.k = "inf" THEN b
    ELSE IF a.s = 0 THEN b
    ELSE IF b.s = 0 THEN a
    ELSE NumAddAt(a, b, IF a.e < b.e THEN a.e ELSE b.e)

NumSub(a, b) == NumAdd(a, NumNeg(b))

NumPositive(x) == x.k # "nan" /\ x.s = 1

\* a > b; false when either is NaN
NumGt(a, b) == NumPositive(NumSub(a, b))

\* a === b for numbers
NumEq(a, b) == a.k # "nan" /\ b.k # "nan" /\ a = b

(***************************************************************************)
(* JavaScript bigints: [s, m], sign and magnitude.                         *)
(***************************************************************************)
Big(s, m) == IF m = <<>> \/ s = 0 THEN [s |-> 0, m |-> <<>>] ELSE [s |-> s, m |-> m]

BigMul(a, b) == Big(a.s * b.s, NMul(a.m, b.m))

\* a / b, truncated toward zero, for b # 0
BigQuot(a, b) == Big(a.s * b.s, NDivMod(a.m, b.m).q)

BigNeg(a) == [a EXCEPT !.s = 0 - a.s]

BigAddCmp(a, b, c) ==
    IF c = 0 THEN Big(0, <<>>)
    ELSE IF c = 1 THEN Big(a.s, NSub(a.m, b.m))
    ELSE Big(b.s, NSub(b.m, a.m))

BigAdd(a, b) ==
    IF a.s = 0 THEN b
    ELSE IF b.s = 0 THEN a
    ELSE IF a.s = b.s THEN Big(a.s, NAdd(a.m, b.m))
    ELSE BigAddCmp(a, b, NCmp(a.m, b.m))

BigSub(a, b) == BigAdd(a, BigNeg(b))

\* Number(b) for a bigint b: the double nearest to it
Number(b) == FlBits(b.s, b.m, 0, FALSE)

\* the result of a call that may throw
Ok(v) == [ok |-> TRUE, v |-> v, err |-> ""]
Throw(e) == [ok |-> FALSE, v |-> Zero, err |-> e]

(***************************************************************************)
(* Constants of the program.                                               *)
(***************************************************************************)
USDC == "0xB97EF9Ef8734C71904D8002F8b6Bc66Dd9c48a6E"
USDT == "0xc7198437980c041c805A1EDcbA50c1Ce5db95118"

\* An address that is neither token (the tokens of another chain).
OTHER_TOKEN == "0x29219dd400f2Bf60E5a23d13Be72B486D4038894"

\* String.prototype.toLowerCase on the addresses of the model
ToLowerCase(a) ==
    CASE a = "0xB97EF9Ef8734C71904D8002F8b6Bc66Dd9c48a6E"
           -> "0xb97ef9ef8734c71904d8002f8b6bc66dd9c48a6e"
      [] a = "0xc7198437980c041c805A1EDcbA50c1Ce5db95118"
           -> "0xc7198437980c041c805a1edcba50c1ce5db95118"
      [] a = "0x29219dd400f2Bf60E5a23d13Be72B486D4038894"
           -> "0x29219dd400f2bf60e5a23d13be72b486d4038894"
      [] a = "0xA" -> "0xa"
      [] a = "0xB" -> "0xb"
      [] OTHER -> a

maxRetries == 3
baseDelay == 1000

\* The environment's settings that src/src/config.ts reads at load time:
\* each is a record of the exported values.
DefaultConfig ==
    [ FEES |-> [ PHARAOH |-> Dec(5, 100000), SHADOW |-> Dec(1, 10000),
                 BRIDGE_USDT |-> Dec(1, 10), BRIDGE_USDC |-> Dec(1, 10) ],
      PROFIT_THRESHOLD |-> Dec(1, 100),
      START_USDC |-> Dec(10, 1),
      LIVE_MODE |-> FALSE ]

\* PHARAOH_SWAP_FEE=0 SHADOW_SWAP_FEE=0 BRIDGE_COST_USDT=0 BRIDGE_COST_USDC=0
\* PROFIT_THRESHOLD=0
FreeConfig ==
    [ FEES |-> [ PHARAOH |-> Zero, SHADOW |-> Zero,
                 BRIDGE_USDT |-> Zero, BRIDGE_USDC |-> Zero ],
      PROFIT_THRESHOLD |-> Zero,
      START_USDC |-> Dec(10, 1),
      LIVE_MODE |-> FALSE ]

\* the defaults, LIVE_MODE=true, no costs at all, and BRIDGE_COST_USDT=0.3
Configs ==
    { DefaultConfig, [DefaultConfig EXCEPT !.LIVE_MODE = TRUE], FreeConfig,
      [DefaultConfig EXCEPT !.FEES.BRIDGE_USDT = Dec(3, 10)] }

(***************************************************************************)
(* BigNumber math helpers.                                                 *)
(***************************************************************************)
\* the least double that Number.prototype.toString writes without an
\* exponent, and 1e21
LeastPlain == Dec(1, 1000000)
LeastHuge == MkFin(1, Pow10(21), <<1>>)

\* Number.prototype.toString uses exponent notation for a non-zero magnitude
\* below 1e-6 or from 1e21 on; parseUnits rejects such a string, as it
\* rejects "NaN" and "Infinity".
DecimalString(x) ==
    /\ x.k = "fin"
    /\ x.s # 0 => /\ ~NumGt(LeastPlain, NumAbs(x))
                  /\ NumGt(LeastHuge, NumAbs(x))

\* the decimal (2 * q + 1) / (2 * 10^decimals), half way between two
\* neighbours of `decimals` digits, as a number
MidPoint(s, q, decimals) ==
    MkFin(s, NAdd(NMulSmall(q, 2), <<1>>), NMulSmall(Pow10(decimals), 2))

\* q, one more when the digits beyond it are rounded up
RoundHalfUp(s, q, up) == Big(s, IF up THEN NAdd(q, <<1>>) ELSE q)

\* x.toString() is the shortest decimal that reads back as x, and parseUnits
\* rounds its digits beyond `decimals` half up on the magnitude.  That is the
\* rounding of x itself, except when the half-way decimal above x reads back
\* as x: then that decimal is the string and it is rounded up.  (For
\* magnitudes below 2^29, where doubles lie less than 1e-7 apart.)
\* n * 2^(x.e) is the magnitude scaled by 10^decimals, q its integer part.
ParseUnitsAt(x, decimals, n, q) ==
    RoundHalfUp(x.s, q, \/ NBit(n, 0 - x.e - 1) = 1
                        \/ NumEq(MidPoint(x.s, q, decimals), x))

\* parseUnits(x.toString(), decimals)
ParseUnits(x, decimals) ==
    IF x.e >= 0 THEN Big(x.s, NShl(NMul(x.m, Pow10(decimals)), x.e))
    ELSE ParseUnitsAt(x, decimals, NMul(x.m, Pow10(decimals)),
                      NShr(NMul(x.m, Pow10(decimals)), 0 - x.e))

bn(num, decimals) ==
    IF DecimalString(num) THEN Ok(ParseUnits(num, decimals))
    ELSE Throw("InvalidDecimalNumberError")

\* Number(formatUnits(bnVal, decimals)): the double nearest to the decimal
bnToNum(bnVal, decimals) == MkFin(bnVal.s, bnVal.m, Pow10(decimals))

bnMul(a, b, decimals) == Ok(BigQuot(BigMul(a, b), Big(1, Pow10(decimals))))

bnDiv(a, b, decimals) ==
    IF b.s = 0 THEN Throw("RangeError: Division by zero")
    ELSE Ok(BigQuot(BigMul(a, Big(1, Pow10(decimals))), b))

(***************************************************************************)
(* Price conversion.                                                       *)
(***************************************************************************)
\* The conversion with the factor 10^decimalsToken0 in place of
\* 10^(decimalsToken0 - decimalsToken1).
getPriceScaledByDecimals0(sqrtPriceX96, decimalsToken0, decimalsToken1) ==
    IF decimalsToken0 - decimalsToken1 < 0
    THEN Throw("RangeError: Exponent must be non-negative")
    ELSE Ok(NumDiv(Number(Big(1, NMul(NMul(sqrtPriceX96, sqrtPriceX96),
                                      Pow10(decimalsToken0)))),
                   Number(Big(1, NShl(<<1>>, 192)))))

\* The conversion with numerator and denominator exchanged.
getPriceInverted(sqrtPriceX96, decimalsToken0, decimalsToken1) ==
    IF decimalsToken0 - decimalsToken1 < 0
    THEN Throw("RangeError: Exponent must be non-negative")
    ELSE Ok(NumDiv(Number(Big(1, NShl(<<1>>, 192))),
                   Number(Big(1, NMul(NMul(sqrtPriceX96, sqrtPriceX96),
                                      Pow10(decimalsToken0 - decimalsToken1))))))

\* sqrtPriceX96 is a uint160, given as a magnitude.
getPriceFromSqrtPriceX96BigInt(sqrtPriceX96, decimalsToken0, decimalsToken1) ==
    IF decimalsToken0 - decimalsToken1 < 0
    THEN Throw("RangeError: Exponent must be non-negative")
    ELSE LET numerator == NMul(NMul(sqrtPriceX96, sqrtPriceX96),
                               Pow10(decimalsToken0 - decimalsToken1))
             denominator == NShl(<<1>>, 192)
         IN  Ok(NumDiv(Number(Big(1, numerator)), Number(Big(1, denominator))))

\* The fee added to the amount instead of taken from it.
applySwapFeeAdded(amount, fee) == NumMul(amount, NumAdd(One, fee))

applySwapFee(amount, fee) == NumMul(amount, NumSub(One, fee))

getSymbol(address) ==
    IF ToLowerCase(address) = ToLowerCase(USDC) THEN "USDC"
    ELSE IF ToLowerCase(address) = ToLowerCase(USDT) THEN "USDT"
    ELSE "UNKNOWN"

(***************************************************************************)
(* simulateDirection: the estimate of one round trip.                      *)
(***************************************************************************)
\* A variant of simulateDirectionResult that enforces minAmountOut: a final
\* amount below it counts as a total loss.
simulateDirectionResultEnforced(p, finalAmount) ==
    [ directionLabel |-> p.directionLabel,
      startAmount |-> p.startAmount,
      finalAmount |-> finalAmount,
      profit |-> IF NumGt(NumMul(p.startAmount, p.minAmountOutFactor), finalAmount)
                 THEN NumNeg(p.startAmount)
                 ELSE NumSub(finalAmount, p.startAmount),
      minAmountOut |-> NumMul(p.startAmount, p.minAmountOutFactor),
      tokenIn |-> getSymbol(p.tokenIn),
      tokenOut |-> getSymbol(p.tokenOut) ]

simulateDirectionResult(p, finalAmount) ==
    [ directionLabel |-> p.directionLabel,
      startAmount |-> p.startAmount,
      finalAmount |-> finalAmount,
      profit |-> NumSub(finalAmount, p.startAmount),
      minAmountOut |-> NumMul(p.startAmount, p.minAmountOutFactor),
      tokenIn |-> getSymbol(p.tokenIn),
      tokenOut |-> getSymbol(p.tokenOut) ]

\* A variant of simulateDirection whose second swap follows the rule of the
\* first: multiply when token0 is the token named, divide otherwise.
simulateDirectionSameRule(p) ==
    LET afterSwapA ==
            IF ToLowerCase(p.poolA.token0) = ToLowerCase(p.tokenIn)
            THEN applySwapFee(NumMul(p.startAmount, p.poolA.price), p.swapFeeA)
            ELSE applySwapFee(NumDiv(p.startAmount, p.poolA.price), p.swapFeeA)
        afterBridgeA == NumSub(afterSwapA, p.bridgeCostA)
        afterSwapB ==
            IF ToLowerCase(p.poolB.token0) = ToLowerCase(p.tokenOut)
            THEN applySwapFee(NumMul(afterBridgeA, p.poolB.price), p.swapFeeB)
            ELSE applySwapFee(NumDiv(afterBridgeA, p.poolB.price), p.swapFeeB)
        finalAmount == NumSub(afterSwapB, p.bridgeCostB)
    IN  simulateDirectionResult(p, finalAmount)

\* A variant of simulateDirection that compares the addresses as they are
\* spelled.
simulateDirectionCaseSensitive(p) ==
    LET afterSwapA ==
            IF p.poolA.token0 = p.tokenIn
            THEN applySwapFee(NumMul(p.startAmount, p.poolA.price), p.swapFeeA)
            ELSE applySwapFee(NumDiv(p.startAmount, p.poolA.price), p.swapFeeA)
        afterBridgeA == NumSub(afterSwapA, p.bridgeCostA)
        afterSwapB ==
            IF p.poolB.token0 = p.tokenOut
            THEN applySwapFee(NumDiv(afterBridgeA, p.poolB.price), p.swapFeeB)
            ELSE applySwapFee(NumMul(afterBridgeA, p.poolB.price), p.swapFeeB)
        finalAmount == NumSub(afterSwapB, p.bridgeCostB)
    IN  simulateDirectionResult(p, finalAmount)

simulateDirection(p) ==
    LET afterSwapA ==
            IF ToLowerCase(p.poolA.token0) = ToLowerCase(p.tokenIn)
            THEN applySwapFee(NumMul(p.startAmount, p.poolA.price), p.swapFeeA)
            ELSE applySwapFee(NumDiv(p.startAmount, p.poolA.price), p.swapFeeA)
        afterBridgeA == NumSub(afterSwapA, p.bridgeCostA)
        afterSwapB ==
            IF ToLowerCase(p.poolB.token0) = ToLowerCase(p.tokenOut)
            THEN applySwapFee(NumDiv(afterBridgeA, p.poolB.price), p.swapFeeB)
            ELSE applySwapFee(NumMul(afterBridgeA, p.poolB.price), p.swapFeeB)
        finalAmount == NumSub(afterSwapB, p.bridgeCostB)
    IN  simulateDirectionResult(p, finalAmount)

(***************************************************************************)
(* Mock swap and bridges.                                                  *)
(***************************************************************************)
simulatedCost == Dec(1, 10)
simulatedSlippage == Dec(5, 10000)

mockCcipBridge(p) ==
    Ok([ amountReceived |-> NumSub(p.amount, simulatedCost), txHash |-> "0xmockccip" ])

mockStargateBridge(p) ==
    Ok([ amountReceived |-> NumSub(p.amount, simulatedCost), txHash |-> "0xmockstargate" ])

\* The value of mockSwap's amountOutBeforeFeeBN, or the error thrown on the way.
mockSwapBeforeFee(p, amountInBN, priceBN) ==
    IF ToLowerCase(p.fromToken) = ToLowerCase(p.toToken) THEN Ok(amountInBN)
    ELSE IF ToLowerCase(p.fromToken) = ToLowerCase(USDC)
         THEN bnMul(amountInBN, priceBN, 6)
         ELSE bnDiv(amountInBN, priceBN, 6)

\* A variant of mockSwapOut that adds the slippage.
mockSwapOutSlippageAdded(amountOutAfterFeeBN, slippageBN) ==
    Ok([ amountOut |-> bnToNum(BigAdd(amountOutAfterFeeBN, slippageBN), 6),
         txHash |-> "0xmockswap" ])

\* amountOut: bnToNum(amountOutAfterFeeBN - slippageBN)
mockSwapOut(amountOutAfterFeeBN, slippageBN) ==
    Ok([ amountOut |-> bnToNum(BigSub(amountOutAfterFeeBN, slippageBN), 6),
         txHash |-> "0xmockswap" ])

\* slippageBN = bnMul(amountOutAfterFeeBN, bn(simulatedSlippage))
mockSwapSlippage(amountOutAfterFeeBN, slipBN) ==
    IF ~slipBN.ok THEN slipBN
    ELSE mockSwapOut(amountOutAfterFeeBN, bnMul(amountOutAfterFeeBN, slipBN.v, 6).v)

\* feeBN = bn(1 - fee); amountOutAfterFeeBN = bnMul(amountOutBeforeFeeBN, feeBN)
mockSwapAfterFee(before, feeBN, slippage) ==
    IF ~before.ok THEN before
    ELSE IF ~feeBN.ok THEN feeBN
    ELSE mockSwapSlippage(bnMul(before.v, feeBN.v, 6).v, bn(slippage, 6))

\* simulatedSlippage = 0.0005 unless the caller passes one
SlippageOf(p) ==
    IF "simulatedSlippage" \in DOMAIN p THEN p.simulatedSlippage ELSE simulatedSlippage

mockSwapScaled(p, amountInBN, priceBN) ==
    IF ~amountInBN.ok THEN amountInBN
    ELSE IF ~priceBN.ok THEN priceBN
    ELSE mockSwapAfterFee(mockSwapBeforeFee(p, amountInBN.v, priceBN.v),
                          bn(NumSub(One, p.fee), 6), SlippageOf(p))

mockSwap(p) == mockSwapScaled(p, bn(p.amountIn, 6), bn(p.price, 6))

(***************************************************************************)
(* The execution pipeline of simulateExecution, as the legs it runs.       *)
(***************************************************************************)
StageNames == <<"Swap1", "Bridge1", "Swap2", "Bridge2">>

Swap(venue, chain, from, to) ==
    [ kind |-> "swap", mock |-> "mockSwap", real |-> "realSwap", venue |-> venue,
      fromChain |-> chain, toChain |-> chain, fromToken |-> from, toToken |-> to ]

Stargate(from, to, token) ==
    [ kind |-> "bridge", mock |-> "mockStargateBridge", real |-> "realStargateBridge",
      venue |-> "Stargate", fromChain |-> from, toChain |-> to,
      fromToken |-> token, toToken |-> token ]

Ccip(from, to, token) ==
    [ kind |-> "bridge", mock |-> "mockCcipBridge", real |-> "realCcipBridge",
      venue |-> "CCIP", fromChain |-> from, toChain |-> to,
      fromToken |-> token, toToken |-> token ]

\* A variant of Pipeline that hands each bridge stage to the other bridge.
PipelineBridgesSwapped(direction) ==
    IF direction = "USDC"
    THEN << Swap("Pharaoh", "Avalanche", USDC, USDT),
            Ccip("Avalanche", "Sonic", USDT),
            Swap("Shadow", "Sonic", USDT, USDC),
            Stargate("Sonic", "Avalanche", USDC) >>
    ELSE << Swap("Pharaoh", "Avalanche", USDT, USDC),
            Stargate("Avalanche", "Sonic", USDC),
            Swap("Shadow", "Sonic", USDC, USDT),
            Ccip("Sonic", "Avalanche", USDT) >>

Pipeline(direction) ==
    IF direction = "USDC"
    THEN << Swap("Pharaoh", "Avalanche", USDC, USDT),
            Stargate("Avalanche", "Sonic", USDT),
            Swap("Shadow", "Sonic", USDT, USDC),
            Ccip("Sonic", "Avalanche", USDC) >>
    ELSE << Swap("Pharaoh", "Avalanche", USDT, USDC),
            Ccip("Avalanche", "Sonic", USDC),
            Swap("Shadow", "Sonic", USDC, USDT),
            Stargate("Sonic", "Avalanche", USDT) >>

\* A variant of UseLive with the two branches of the ternary exchanged.
UseLiveInverted(c) == ~c.LIVE_MODE

\* LIVE_MODE ? real... : mock...
UseLive(c) == c.LIVE_MODE

\* A variant of StageUsesLive in which the bridge stages are live whatever
\* LIVE_MODE says.
StageUsesLiveBridges(c, stageNo) == UseLive(c) \/ stageNo \in { 2, 4 }

\* The ternary of stage stageNo: each of the four reads the same LIVE_MODE.
StageUsesLive(c, stageNo) == UseLive(c)

\* A variant of StageInput that feeds every stage the start amount.
StageInputStart(stageNo, start, last) == start

\* The amount a stage is given: START_USDC for the first, then the amountOut
\* or amountReceived of the stage before.
StageInput(stageNo, start, last) == IF stageNo = 1 THEN start ELSE last

\* The amount a handler's result carries on to the next stage.
AmountOf(leg, r) ==
    IF ~r.ok THEN r
    ELSE IF leg.kind = "swap" THEN Ok(r.v.amountOut) ELSE Ok(r.v.amountReceived)

\* A variant of RoundTripReport that logs what Swap2 returned, the amount
\* that went into Bridge2.
RoundTripReportBeforeBridge2(direction, bridged, received, start) ==
    [ logged |-> TRUE, direction |-> direction, finalAmount |-> bridged,
      profit |-> NumSub(bridged, start) ]

\* "[EXECUTION][...] Round-trip complete. Started with ${START_USDC}, ended
\* with ${bridge2.amountReceived}. Net profit: ${bridge2.amountReceived -
\* START_USDC}"; `bridged` is swap2.amountOut, the amount Bridge2 was given.
RoundTripReport(direction, bridged, received, start) ==
    [ logged |-> TRUE, direction |-> direction, finalAmount |-> received,
      profit |-> NumSub(received, start) ]

\* The mock handler of a leg, applied.
RunMock(leg, amountIn, pharaohQ, shadowQ, fees) ==
    IF leg.kind = "swap"
    THEN AmountOf(leg, mockSwap([ dex |-> leg.venue, chain |-> leg.fromChain,
                             fromToken |-> leg.fromToken, toToken |-> leg.toToken,
                             amountIn |-> amountIn,
                             price |-> IF leg.venue = "Pharaoh" THEN pharaohQ.price
                                                                ELSE shadowQ.price,
                             fee |-> IF leg.venue = "Pharaoh" THEN fees.PHARAOH
                                                              ELSE fees.SHADOW ]))
    ELSE IF leg.mock = "mockCcipBridge"
         THEN AmountOf(leg, mockCcipBridge([ fromChain |-> leg.fromChain,
                             toChain |-> leg.toChain, amount |-> amountIn,
                             token |-> leg.fromToken ]))
         ELSE AmountOf(leg, mockStargateBridge([ fromChain |-> leg.fromChain,
                             toChain |-> leg.toChain, amount |-> amountIn,
                             token |-> leg.fromToken ]))

\* A variant of RealBody for handlers that are implemented and return an
\* amount.
RealBodyImplemented(fn) == Ok(One)

\* The body that realSwap, realCcipBridge and realStargateBridge hand to
\* retryAsync: each throws.
RealBody(fn) == Throw(fn \o " not implemented")

\* A variant of RetryExhausted that gives up one attempt earlier.
RetryExhaustedAtMax(attempt) == attempt >= maxRetries

\* retryAsync: if (attempt > maxRetries) throw err
RetryExhausted(attempt) == attempt > maxRetries

\* A variant of Backoff that grows by baseDelay with every attempt.
BackoffLinear(attempt) == baseDelay * attempt

\* retryAsync: sleep(baseDelay * 2 ** (attempt - 1))
Backoff(attempt) == baseDelay * 2^(attempt - 1)

\* What one call of retryAsync did: the value returned or the error thrown,
\* the number of times fn was invoked and the delays slept, in order.
RetryDone(result, invoked, slept) ==
    [ result |-> result, fnCalls |-> invoked, waits |-> slept ]

\* retryAsync's while (true) from its turn number attempt + 1 on; fn[i] is
\* what the i-th invocation of fn does.
RECURSIVE retryAsyncAt(_, _, _)
retryAsyncAt(fn, attempt, slept) ==
    IF fn[attempt + 1].ok THEN RetryDone(fn[attempt + 1], attempt + 1, slept)
    ELSE IF RetryExhausted(attempt + 1)
         THEN RetryDone(fn[attempt + 1], attempt + 1, slept)
         ELSE retryAsyncAt(fn, attempt + 1, Append(slept, Backoff(attempt + 1)))

\* A variant of retryAsync that sleeps after every attempt, the one that
\* returned included.
retryAsyncThenSleep(fn) ==
    RetryDone(retryAsyncAt(fn, 0, <<>>).result, retryAsyncAt(fn, 0, <<>>).fnCalls,
              Append(retryAsyncAt(fn, 0, <<>>).waits,
                     Backoff(retryAsyncAt(fn, 0, <<>>).fnCalls)))

\* let attempt = 0; while (true) { ... }
retryAsync(fn) == retryAsyncAt(fn, 0, <<>>)

(***************************************************************************)
(* The choice of simulateArbitrage.                                        *)
(***************************************************************************)
\* A variant of ExceedsThreshold that compares with >=.
AtLeastThreshold(profit, threshold) ==
    NumGt(profit, threshold) \/ NumEq(profit, threshold)

\* dirN.profit > PROFIT_THRESHOLD
ExceedsThreshold(profit, threshold) == NumGt(profit, threshold)

\* A variant of ExecutionPlan that prefers the direction with the higher profit.
ExecutionPlanBest(d1, d2, threshold) ==
    IF NumGt(d1.profit, threshold) /\ NumGt(d2.profit, threshold)
    THEN IF NumGt(d2.profit, d1.profit) THEN <<"USDT">> ELSE <<"USDC">>
    ELSE IF NumGt(d1.profit, threshold) THEN <<"USDC">>
    ELSE IF NumGt(d2.profit, threshold) THEN <<"USDT">>
    ELSE <<>>

\* A variant of ExecutionPlan with two independent ifs in place of if / else if.
ExecutionPlanBoth(d1, d2, threshold) ==
    (IF NumGt(d1.profit, threshold) THEN <<"USDC">> ELSE <<>>)
        \o (IF NumGt(d2.profit, threshold) THEN <<"USDT">> ELSE <<>>)

\* The calls of simulateExecution the if / else if / else makes, in order.
ExecutionPlan(d1, d2, threshold) ==
    IF ExceedsThreshold(d1.profit, threshold) THEN <<"USDC">>
    ELSE IF ExceedsThreshold(d2.profit, threshold) THEN <<"USDT">>
    ELSE <<>>

Direction1(c, pharaohQ, shadowQ) ==
    simulateDirection([ startAmount |-> c.START_USDC,
                        poolA |-> pharaohQ, poolB |-> shadowQ,
                        swapFeeA |-> c.FEES.PHARAOH, swapFeeB |-> c.FEES.SHADOW,
                        bridgeCostA |-> c.FEES.BRIDGE_USDT,
                        bridgeCostB |-> c.FEES.BRIDGE_USDC,
                        directionLabel |-> "USDC->USDT->USDC",
                        tokenIn |-> USDC, tokenOut |-> USDC,
                        minAmountOutFactor |-> Dec(995, 1000) ])

\* A variant of Direction2 with the bridge costs of Direction1.
Direction2CostsOfDirection1(c, pharaohQ, shadowQ) ==
    simulateDirection([ startAmount |-> c.START_USDC,
                        poolA |-> pharaohQ, poolB |-> shadowQ,
                        swapFeeA |-> c.FEES.PHARAOH, swapFeeB |-> c.FEES.SHADOW,
                        bridgeCostA |-> c.FEES.BRIDGE_USDT,
                        bridgeCostB |-> c.FEES.BRIDGE_USDC,
                        directionLabel |-> "USDT->USDC->USDT",
                        tokenIn |-> USDT, tokenOut |-> USDT,
                        minAmountOutFactor |-> Dec(995, 1000) ])

Direction2(c, pharaohQ, shadowQ) ==
    simulateDirection([ startAmount |-> c.START_USDC,
                        poolA |-> pharaohQ, poolB |-> shadowQ,
                        swapFeeA |-> c.FEES.PHARAOH, swapFeeB |-> c.FEES.SHADOW,
                        bridgeCostA |-> c.FEES.BRIDGE_USDC,
                        bridgeCostB |-> c.FEES.BRIDGE_USDT,
                        directionLabel |-> "USDT->USDC->USDT",
                        tokenIn |-> USDT, tokenOut |-> USDT,
                        minAmountOutFactor |-> Dec(995, 1000) ])

(***************************************************************************)
(* What the chains answer: the inputs of a polling cycle.                  *)
(***************************************************************************)
\* The pool prices of the model lie MaxTick steps of 2^90 around 2^96.
MaxTick == 2

Q96 == NShl(<<1>>, 96)

SqrtAt(k) == IF k >= 0 THEN NAdd(Q96, NMulSmall(NShl(<<1>>, 90), k))
                       ELSE NSub(Q96, NMulSmall(NShl(<<1>>, 90), 0 - k))

\* an uninitialised pool (0), a price below 1e-6 (2^80), and prices around 1
SqrtPrices == { <<>>, NShl(<<1>>, 80) } \cup { SqrtAt(k) : k \in (0 - MaxTick)..MaxTick }

Token0s == { USDC, USDT, OTHER_TOKEN }

Token1Of(t) == IF ToLowerCase(t) = ToLowerCase(USDT) THEN USDC ELSE USDT

\* The answers of readContract: token0, token1, slot0 and the two decimals,
\* or a rejected call.
PoolReads ==
    { [ rpc |-> "ok", token0 |-> t, token1 |-> Token1Of(t), sqrtPriceX96 |-> q,
        decimals0 |-> 6, decimals1 |-> 6 ] : t \in Token0s, q \in SqrtPrices }
    \cup { [ rpc |-> "ok", token0 |-> USDC, token1 |-> OTHER_TOKEN, sqrtPriceX96 |-> Q96,
             decimals0 |-> 6, decimals1 |-> 18 ] }
    \cup { [ rpc |-> "fail", token0 |-> "", token1 |-> "", sqrtPriceX96 |-> <<>>,
             decimals0 |-> 0, decimals1 |-> 0 ] }

\* return { price, token0, token1, decimals0, decimals1 }
PoolQuote(read, price) ==
    IF ~price.ok THEN price
    ELSE Ok([ price |-> price.v, token0 |-> read.token0, token1 |-> read.token1,
              decimals0 |-> read.decimals0, decimals1 |-> read.decimals1 ])

\* getPharaohPrice / getShadowPrice on one answer
GetPoolPrice(read) ==
    IF read.rpc # "ok" THEN Throw("ContractFunctionExecutionError")
    ELSE PoolQuote(read, getPriceFromSqrtPriceX96BigInt(read.sqrtPriceX96,
                                                        read.decimals0, read.decimals1))

(***************************************************************************)
(* The bot: main's polling loop around simulateArbitrage.                  *)
(***************************************************************************)
VARIABLES
    cfg,        \* the configuration read at start-up
    pc,         \* where main stands
    pharaoh,    \* simulateArbitrage's pharaoh
    shadow,     \* simulateArbitrage's shadow
    dir1,       \* simulateArbitrage's dir1
    dir2,       \* simulateArbitrage's dir2
    plan,       \* the calls of simulateExecution still to come in this cycle
    executed,   \* the directions simulateExecution was called with in this cycle
    stage,      \* the stage simulateExecution stands at, 1..4 (0: none)
    amount,     \* the output of the last stage that returned
    pending,    \* the result a running handler will return
    attempt,    \* retryAsync's attempt
    fnCalls,    \* how often retryAsync has invoked fn for the current stage
    waits,      \* the delays retryAsync has slept for the current stage
    calls,      \* the handlers invoked in this cycle, in order
    returns,    \* the amounts the handlers returned in this cycle, in order
    failedAt,   \* the stage whose handler threw (0: none)
    outcome,    \* how the cycle ended: "running", "noOpportunity", "complete", "error"
    caught,     \* what simulateArbitrage's catch logged
    report,     \* the final "Round-trip complete" log line
    looped,     \* main has been round its while (true) loop at least once
    probe       \* a function of the program applied on its own: name, input, result

vars == << probe, looped, cfg, pc, pharaoh, shadow, dir1, dir2, plan, executed, stage, amount, pending,
           attempt, fnCalls, waits, calls, returns, failedAt, outcome, caught, report >>

NoQuote == [ price |-> Zero, token0 |-> "", token1 |-> "", decimals0 |-> 0, decimals1 |-> 0 ]

NoDir == [ directionLabel |-> "", startAmount |-> Zero, finalAmount |-> Zero,
           profit |-> Zero, minAmountOut |-> Zero, tokenIn |-> "", tokenOut |-> "" ]

NoReport == [ logged |-> FALSE, direction |-> "", finalAmount |-> Zero, profit |-> Zero ]

\* The locals of a cycle before anything has run.
FreshCycle ==
    /\ pharaoh = NoQuote /\ shadow = NoQuote /\ dir1 = NoDir /\ dir2 = NoDir
    /\ plan = <<>> /\ executed = <<>> /\ stage = 0 /\ amount = Zero /\ pending = Zero
    /\ attempt = 0 /\ fnCalls = 0 /\ waits = <<>> /\ calls = <<>> /\ returns = <<>>
    /\ failedAt = 0 /\ outcome = "running" /\ caught = "" /\ report = NoReport

NoProbe == [ fn |-> "", in |-> <<>>, out |-> <<>> ]

Init ==
    /\ cfg \in Configs
    /\ pc = "getPharaohPrice"
    /\ looped = FALSE
    /\ probe = NoProbe
    /\ FreshCycle

\* A variant of Catch with an empty handler: nothing is logged.
CatchSilently(err) ==
    /\ outcome' = "error"
    /\ caught' = ""
    /\ pc' = "poll"

\* A variant of Catch without the try / catch: the rejection leaves main's loop.
Uncaught(err) ==
    /\ outcome' = "error"
    /\ caught' = ""
    /\ pc' = "exited"

\* A variant of Catch that logs the error and lets it leave main's loop.
CatchAndExit(err) ==
    /\ outcome' = "error"
    /\ caught' = err
    /\ pc' = "exited"

\* A variant of Catch for a rejection that is never settled: nothing is
\* logged and the cycle stays pending.
CatchAndHang(err) ==
    /\ outcome' = outcome
    /\ caught' = caught
    /\ pc' = "pending"

\* catch (err) { console.error(..., err) }: simulateArbitrage resolves and main
\* goes on to its sleep.
Catch(err) ==
    /\ outcome' = "error"
    /\ caught' = err
    /\ pc' = "poll"

\* const pharaoh = await getPharaohPrice()
GetPharaohPrice ==
    /\ pc = "getPharaohPrice"
    /\ \E read \in PoolReads : \E q \in { GetPoolPrice(read) } :
             IF q.ok
             THEN /\ pharaoh' = q.v
                  /\ pc' = "getShadowPrice"
                  /\ UNCHANGED << outcome, caught >>
             ELSE /\ Catch(q.err)
                  /\ UNCHANGED pharaoh
    /\ UNCHANGED << probe, looped, cfg, shadow, dir1, dir2, plan, executed, stage, amount, pending,
                    attempt, fnCalls, waits, calls, returns, failedAt, report >>

\* const shadow = await getShadowPrice()
GetShadowPrice ==
    /\ pc = "getShadowPrice"
    /\ \E read \in PoolReads : \E q \in { GetPoolPrice(read) } :
             IF q.ok
             THEN /\ shadow' = q.v
                  /\ pc' = "evaluate"
                  /\ UNCHANGED << outcome, caught >>
             ELSE /\ Catch(q.err)
                  /\ UNCHANGED shadow
    /\ UNCHANGED << probe, looped, cfg, pharaoh, dir1, dir2, plan, executed, stage, amount, pending,
                    attempt, fnCalls, waits, calls, returns, failedAt, report >>

\* The two calls of simulateDirection and the threshold check; a profitable
\* direction enters simulateExecution.
Evaluate ==
    /\ pc = "evaluate"
    /\ \E d1 \in { Direction1(cfg, pharaoh, shadow) } :
       \E d2 \in { Direction2(cfg, pharaoh, shadow) } :
       \E todo \in { ExecutionPlan(d1, d2, cfg.PROFIT_THRESHOLD) } :
           /\ dir1' = d1
           /\ dir2' = d2
           /\ IF todo = <<>>
              THEN /\ outcome' = "noOpportunity"
                   /\ pc' = "poll"
                   /\ UNCHANGED << plan, executed, stage >>
              ELSE /\ plan' = Tail(todo)
                   /\ executed' = <<Head(todo)>>
                   /\ stage' = 1
                   /\ pc' = "stage"
                   /\ UNCHANGED outcome
    /\ UNCHANGED << probe, looped, cfg, pharaoh, shadow, amount, pending, attempt, fnCalls, waits,
                    calls, returns, failedAt, caught, report >>

\* The record of one handler invocation.
Call(direction, stageNo, leg, fn, amountIn) ==
    [ direction |-> direction, stage |-> stageNo, name |-> StageNames[stageNo],
      fn |-> fn, kind |-> leg.kind, venue |-> leg.venue,
      fromToken |-> leg.fromToken, toToken |-> leg.toToken, amountIn |-> amountIn ]

\* One stage of simulateExecution is started: LIVE_MODE ? await real...(...)
\* : await mock...(...).  A mock handler computes its result and sleeps; a
\* real handler enters retryAsync.
InvokeStage ==
    /\ pc = "stage"
    /\ \E direction \in { executed[Len(executed)] } :
       \E leg \in { Pipeline(direction)[stage] } :
       \E input \in { StageInput(stage, cfg.START_USDC, amount) } :
           IF StageUsesLive(cfg, stage)
           THEN \E arg \in { bn(input, 6) } :
                    IF arg.ok
                    THEN /\ calls' = Append(calls, Call(direction, stage, leg, leg.real, input))
                         /\ attempt' = 0
                         /\ fnCalls' = 0
                         /\ waits' = <<>>
                         /\ pc' = "retryCall"
                         /\ UNCHANGED << pending, failedAt, outcome, caught >>
                    ELSE /\ Catch(arg.err)
                         /\ failedAt' = stage
                         /\ UNCHANGED << calls, attempt, fnCalls, waits, pending >>
           ELSE \E r \in { RunMock(leg, input, pharaoh, shadow, cfg.FEES) } :
                    /\ calls' = Append(calls, Call(direction, stage, leg, leg.mock, input))
                    /\ UNCHANGED << attempt, fnCalls, waits >>
                    /\ IF r.ok
                       THEN /\ pending' = r.v
                            /\ pc' = "awaitStage"
                            /\ UNCHANGED << failedAt, outcome, caught >>
                       ELSE /\ Catch(r.err)
                            /\ failedAt' = stage
                            /\ UNCHANGED pending
    /\ UNCHANGED << probe, looped, cfg, pharaoh, shadow, dir1, dir2, plan, executed, stage, amount,
                    returns, report >>

\* retryAsync: one turn of its while (true) - try { return await fn() }
\* catch { attempt++; if (attempt > maxRetries) throw err; sleep }
RetryCall ==
    /\ pc = "retryCall"
    /\ \E r \in { RealBody(Pipeline(executed[Len(executed)])[stage].real) } :
           /\ fnCalls' = fnCalls + 1
           /\ IF r.ok
              THEN /\ pending' = r.v
                   /\ pc' = "awaitStage"
                   /\ UNCHANGED << attempt, waits, failedAt, outcome, caught >>
              ELSE /\ attempt' = attempt + 1
                   /\ UNCHANGED pending
                   /\ IF RetryExhausted(attempt + 1)
                      THEN /\ Catch(r.err)
                           /\ failedAt' = stage
                           /\ UNCHANGED waits
                      ELSE /\ waits' = Append(waits, Backoff(attempt + 1))
                           /\ pc' = "retrySleep"
                           /\ UNCHANGED << failedAt, outcome, caught >>
    /\ UNCHANGED << probe, looped, cfg, pharaoh, shadow, dir1, dir2, plan, executed, stage, amount,
                    calls, returns, report >>

\* retryAsync: the back-off sleep is over
RetrySleepElapsed ==
    /\ pc = "retrySleep"
    /\ pc' = "retryCall"
    /\ UNCHANGED << probe, looped, cfg, pharaoh, shadow, dir1, dir2, plan, executed, stage, amount,
                    pending, attempt, fnCalls, waits, calls, returns, failedAt,
                    outcome, caught, report >>

\* The awaited handler resolves: simulateExecution goes on to the next stage, or
\* logs the round trip after Bridge2 and returns.
StageReturn ==
    /\ pc = "awaitStage"
    /\ returns' = Append(returns, pending)
    /\ amount' = pending
    /\ IF stage < 4
       THEN /\ stage' = stage + 1
            /\ pc' = "stage"
            /\ UNCHANGED << plan, executed, outcome, report >>
       ELSE /\ report' = RoundTripReport(executed[Len(executed)], amount, pending,
                                         cfg.START_USDC)
            /\ IF plan = <<>>
               THEN /\ outcome' = "complete"
                    /\ pc' = "poll"
                    /\ UNCHANGED << plan, executed, stage >>
               ELSE /\ executed' = Append(executed, Head(plan))
                    /\ plan' = Tail(plan)
                    /\ stage' = 1
                    /\ pc' = "stage"
                    /\ UNCHANGED outcome
    /\ UNCHANGED << probe, looped, cfg, pharaoh, shadow, dir1, dir2, pending, attempt, fnCalls, waits,
                    calls, failedAt, caught >>

\* A variant of Awaited for a loop that does not await simulateArbitrage: the
\* timer fires whatever the cycle is doing.
NotAwaited(where) == where # "exited"

\* main: await simulateArbitrage() has resolved and main is in its 10 s sleep.
Awaited(where) == where = "poll"

\* main: the 10 s sleep is over and the loop calls simulateArbitrage again.
PollElapsed ==
    /\ Awaited(pc)
    /\ pc' = "getPharaohPrice"
    /\ pharaoh' = NoQuote /\ shadow' = NoQuote /\ dir1' = NoDir /\ dir2' = NoDir
    /\ plan' = <<>> /\ executed' = <<>> /\ stage' = 0 /\ amount' = Zero /\ pending' = Zero
    /\ attempt' = 0 /\ fnCalls' = 0 /\ waits' = <<>> /\ calls' = <<>> /\ returns' = <<>>
    /\ failedAt' = 0 /\ outcome' = "running" /\ caught' = "" /\ report' = NoReport
    /\ looped' = TRUE
    /\ UNCHANGED << probe, cfg >>

Next ==
    \/ GetPharaohPrice
    \/ GetShadowPrice
    \/ Evaluate
    \/ InvokeStage
    \/ RetryCall
    \/ RetrySleepElapsed
    \/ StageReturn
    \/ PollElapsed

Spec == Init /\ [][Next]_vars

\* The timer of main's sleep fires.
FairSpec == Spec /\ WF_vars(PollElapsed)

\* The event loop runs what is ready: a pending attempt of retryAsync is
\* made, the timers of retryAsync and of main fire, a stage that is due is
\* started and an awaited handler resolves.  InvokeStage and StageReturn are
\* enabled exactly when pc is "stage" and "awaitStage", and every step of
\* theirs leaves that position, so their weak fairness is stated on pc.
PipelineFairSpec ==
    /\ Spec
    /\ WF_vars(RetryCall) /\ WF_vars(RetrySleepElapsed) /\ WF_vars(PollElapsed)
    /\ []<>(pc # "stage") /\ []<>(pc # "awaitStage")

(***************************************************************************)
(* The exported functions applied on their own, as the unit tests do.      *)
(***************************************************************************)
cycleVars == << looped, cfg, pc, pharaoh, shadow, dir1, dir2, plan, executed, stage,
                amount, pending, attempt, fnCalls, waits, calls, returns, failedAt,
                outcome, caught, report >>

Probe(fn, in) == [ fn |-> fn, in |-> in, done |-> FALSE, out |-> <<>> ]

\* swap fees and bridge costs: none, and those of the unit test
CostSets ==
    { [ swapFeeA |-> Zero, swapFeeB |-> Zero, bridgeCostA |-> Zero, bridgeCostB |-> Zero ],
      [ swapFeeA |-> Dec(5, 10000), swapFeeB |-> Dec(5, 10000),
        bridgeCostA |-> Dec(1, 10), bridgeCostB |-> Dec(1, 10) ] }

ProbePrices == { Dec(1, 2), Dec(4, 5), One, Dec(5, 4), Dec(2, 1) }

ProbeTokens == { USDC, ToLowerCase(USDC), USDT, OTHER_TOKEN }

SimulateDirectionArgs(start, tokenA, priceA, tokenB, priceB, token, costs) ==
    [ startAmount |-> start,
      poolA |-> [ token0 |-> tokenA, token1 |-> Token1Of(tokenA), price |-> priceA ],
      poolB |-> [ token0 |-> tokenB, token1 |-> Token1Of(tokenB), price |-> priceB ],
      swapFeeA |-> costs.swapFeeA, swapFeeB |-> costs.swapFeeB,
      bridgeCostA |-> costs.bridgeCostA, bridgeCostB |-> costs.bridgeCostB,
      directionLabel |-> "probe", tokenIn |-> token, tokenOut |-> token,
      minAmountOutFactor |-> Dec(995, 1000) ]

\* src/test/simulateDirection.test.ts
TestScenario ==
    [ startAmount |-> Dec(10, 1),
      poolA |-> [ token0 |-> "0xA", token1 |-> "0xB", price |-> Dec(101, 100) ],
      poolB |-> [ token0 |-> "0xB", token1 |-> "0xA", price |-> Dec(99, 100) ],
      swapFeeA |-> Dec(5, 10000), swapFeeB |-> Dec(5, 10000),
      bridgeCostA |-> Dec(1, 10), bridgeCostB |-> Dec(1, 10),
      directionLabel |-> "A->B->A", tokenIn |-> "0xA", tokenOut |-> "0xA",
      minAmountOutFactor |-> Dec(995, 1000) ]

SimulateDirectionInputs ==
    { SimulateDirectionArgs(start, tokenA, priceA, tokenB, priceB, token, costs) :
          start \in { Dec(10, 1), Dec(1, 100) },
          tokenA \in ProbeTokens, priceA \in ProbePrices,
          tokenB \in ProbeTokens, priceB \in ProbePrices,
          token \in { USDC, USDT }, costs \in CostSets }
    \cup { TestScenario }

\* sqrt prices: 0, 1, 2^80, around 2^96 (two of them one apart), 2^97 and
\* the greatest uint160
ProbeSqrtPrices ==
    { <<>>, <<1>>, NShl(<<1>>, 80), SqrtAt(-1), Q96, NAdd(Q96, <<1>>), SqrtAt(1),
      NShl(<<1>>, 97), NSub(NShl(<<1>>, 160), <<1>>) }

ProbeDecimals == { 0, 6, 8, 18 }

GetPriceArgs(sqrtPriceX96, d0, d1) ==
    [ sqrtPriceX96 |-> sqrtPriceX96, decimalsToken0 |-> d0, decimalsToken1 |-> d1 ]

GetPriceInputs ==
    { GetPriceArgs(q, d0, d1) : q \in ProbeSqrtPrices, d0 \in ProbeDecimals,
                                d1 \in ProbeDecimals }

\* two calls with the same decimals, the first on the smaller sqrt price
GetPricePairs ==
    { in \in [ first : GetPriceInputs, second : GetPriceInputs ] :
          /\ NCmp(in.first.sqrtPriceX96, in.second.sqrtPriceX96) < 0
          /\ in.first.decimalsToken0 = in.second.decimalsToken0
          /\ in.first.decimalsToken1 = in.second.decimalsToken1 }

\* amounts: negative, zero, a cent, one, the default start amount
ProbeAmounts == { Dec(-10, 1), Zero, Dec(1, 100), One, Dec(10, 1) }

\* fees in [0, 1): none, 2^-60, the defaults of config.ts, the test's, a half,
\* and the greatest double below 1
ProbeFees ==
    { Zero, MkFin(1, <<1>>, NShl(<<1>>, 60)), Dec(5, 100000), Dec(1, 10000),
      Dec(5, 10000), Dec(1, 2), MkFin(1, NSub(NShl(<<1>>, 53), <<1>>), NShl(<<1>>, 53)) }

\* two calls on the same amount, the first with the smaller fee
ApplySwapFeePairs ==
    { in \in [ amount : ProbeAmounts, fee1 : ProbeFees, fee2 : ProbeFees ] :
          NumGt(in.fee2, in.fee1) }

\* The calls of a scripted fn the model looks at: one more than retryAsync
\* can make.
MaxAttempts == 5

\* what the i-th invocation of a scripted fn does
FnAttempt(i, succeeds) ==
    IF succeeds THEN Ok(Dec(i, 1)) ELSE Throw("error " \o ToString(i))

\* fns that fail or succeed from call to call, the i-th call returning the
\* number i or throwing an error of its own
RetryScripts ==
    { [ i \in 1..MaxAttempts |-> FnAttempt(i, script[i]) ] :
          script \in [ 1..MaxAttempts -> BOOLEAN ] }

\* Calls of mockSwap in decimal literals n / d, written <<n, d>>: amounts
\* (none, a micro-unit, one, the default start, one with six decimals, and a
\* tenth of a micro-unit), prices, fees in [0, 1) (none, the default of
\* Pharaoh, 0.3 %, 4e-7, a half, 0.999999 and 0.9999996), and slippages in
\* [0, 1) (<<>>: not passed).
MockSwapInputs ==
    [ amountIn : { <<0, 1>>, <<1, 1000000>>, <<1, 1>>, <<10, 1>>,
                   <<1000123456, 1000000>>, <<1, 10000000>> },
      price : { <<1, 1>>, <<4, 5>>, <<5, 4>> },
      fee : { <<0, 1>>, <<5, 100000>>, <<3, 1000>>, <<4, 10000000>>, <<1, 2>>,
              <<999999, 1000000>>, <<9999996, 10000000>> },
      slippage : { <<>>, <<0, 1>>, <<5, 10000>>, <<16, 10000000>>, <<4, 10000000>>,
                   <<1, 2>> },
      tokens : { <<USDC, USDT>>, <<USDT, USDC>>, <<USDC, USDC>> } ]

\* the arguments of mockSwap that a call with these literals passes
MockSwapArgs(in) ==
    [ dex |-> "Pharaoh", chain |-> "Avalanche",
      fromToken |-> in.tokens[1], toToken |-> in.tokens[2],
      amountIn |-> Dec(in.amountIn[1], in.amountIn[2]),
      price |-> Dec(in.price[1], in.price[2]),
      fee |-> Dec(in.fee[1], in.fee[2]) ]
    @@ (IF in.slippage = <<>> THEN << >>
        ELSE [ x \in { "simulatedSlippage" } |-> Dec(in.slippage[1], in.slippage[2]) ])

ProbeInputs ==
    { Probe("simulateDirection", in) : in \in SimulateDirectionInputs }
    \cup { Probe("mockSwap", in) : in \in MockSwapInputs }
    \cup { Probe("retryAsync", in) : in \in RetryScripts }
    \cup { Probe("applySwapFee twice", in) : in \in ApplySwapFeePairs }
    \cup { Probe("getPriceFromSqrtPriceX96BigInt", in) : in \in GetPriceInputs }
    \cup { Probe("getPriceFromSqrtPriceX96BigInt twice", in) : in \in GetPricePairs }

FnInit ==
    /\ cfg = DefaultConfig
    /\ pc = "probe"
    /\ looped = FALSE
    /\ FreshCycle
    /\ probe \in ProbeInputs

ApplySimulateDirection ==
    /\ pc = "probe"
    /\ probe.fn = "simulateDirection" /\ ~probe.done
    /\ probe' = [probe EXCEPT !.done = TRUE, !.out = simulateDirection(probe.in)]
    /\ UNCHANGED cycleVars

GetPrice(in) ==
    getPriceFromSqrtPriceX96BigInt(in.sqrtPriceX96, in.decimalsToken0, in.decimalsToken1)

ApplyGetPrice ==
    /\ pc = "probe"
    /\ probe.fn = "getPriceFromSqrtPriceX96BigInt" /\ ~probe.done
    /\ probe' = [probe EXCEPT !.done = TRUE, !.out = GetPrice(probe.in)]
    /\ UNCHANGED cycleVars

ApplyGetPriceTwice ==
    /\ pc = "probe"
    /\ probe.fn = "getPriceFromSqrtPriceX96BigInt twice" /\ ~probe.done
    /\ probe' = [probe EXCEPT !.done = TRUE,
                               !.out = [ first |-> GetPrice(probe.in.first),
                                         second |-> GetPrice(probe.in.second) ]]
    /\ UNCHANGED cycleVars

ApplySwapFeeTwice ==
    /\ pc = "probe"
    /\ probe.fn = "applySwapFee twice" /\ ~probe.done
    /\ probe' = [probe EXCEPT !.done = TRUE,
                               !.out = [ first |-> applySwapFee(probe.in.amount, probe.in.fee1),
                                         second |-> applySwapFee(probe.in.amount, probe.in.fee2) ]]
    /\ UNCHANGED cycleVars

ApplyRetryAsync ==
    /\ pc = "probe"
    /\ probe.fn = "retryAsync" /\ ~probe.done
    /\ probe' = [probe EXCEPT !.done = TRUE, !.out = retryAsync(probe.in)]
    /\ UNCHANGED cycleVars

ApplyMockSwap ==
    /\ pc = "probe"
    /\ probe.fn = "mockSwap" /\ ~probe.done
    /\ probe' = [probe EXCEPT !.done = TRUE, !.out = mockSwap(MockSwapArgs(probe.in))]
    /\ UNCHANGED cycleVars

FnNext ==
    \/ ApplySimulateDirection
    \/ ApplyMockSwap
    \/ ApplyRetryAsync
    \/ ApplySwapFeeTwice
    \/ ApplyGetPrice
    \/ ApplyGetPriceTwice

FnSpec == FnInit /\ [][FnNext]_vars

(***************************************************************************)
(* Properties.                                                             *)
(***************************************************************************)
\* simulateArbitrage has computed dir1 and dir2 in this cycle.
Evaluated == dir1.directionLabel # ""

Above1 == NumGt(dir1.profit, cfg.PROFIT_THRESHOLD)
Above2 == NumGt(dir2.profit, cfg.PROFIT_THRESHOLD)

MockHandlers == { "mockSwap", "mockCcipBridge", "mockStargateBridge" }
RealHandlers == { "realSwap", "realCcipBridge", "realStargateBridge" }

\* C1: in a cycle where direction 1's estimated profit is above
\* PROFIT_THRESHOLD the direction executed is direction 1 ("USDC"), whatever
\* direction 2's profit is; direction 2 ("USDT") is executed only when direction
\* 1's profit does not exceed the threshold and direction 2's does.
C1_FixedOrderSelection ==
    Evaluated =>
        /\ Above1 => executed = <<"USDC">>
        /\ \A i \in 1..Len(executed) :
              executed[i] = "USDT" => ~Above1 /\ Above2

\* Both directions are above the threshold, direction 2 is the better one, and
\* the round trip that ran to its end is direction 1's.
C1_Witness ==
    /\ Evaluated /\ Above1 /\ Above2
    /\ NumGt(dir2.profit, dir1.profit)
    /\ executed = <<"USDC">>
    /\ outcome = "complete"

\* C2: in a cycle where neither direction's estimated profit strictly exceeds
\* PROFIT_THRESHOLD (equal counts as not exceeding) no swap and no bridge
\* handler, mock or real, is invoked.
C2_NoExecutionBelowThreshold ==
    (Evaluated /\ ~Above1 /\ ~Above2) =>
        /\ calls = <<>>
        /\ executed = <<>>
        /\ outcome = "noOpportunity"

\* A cycle that ended without execution although direction 1's profit equals
\* the threshold.
C2_Witness ==
    /\ Evaluated
    /\ NumEq(dir1.profit, cfg.PROFIT_THRESHOLD)
    /\ ~Above2
    /\ outcome = "noOpportunity"
    /\ calls = <<>>

\* C3 as stated: every cycle that evaluated the two directions has executed
\* exactly one of them when it ends.
C3_ExactlyOnePerCycle ==
    (pc = "poll" /\ Evaluated) => Len(executed) = 1

\* C3, amended: a cycle executes at most one direction and never both; it
\* executes exactly one when some profit exceeds the threshold and none
\* otherwise.
C3_AtMostOnePerCycle ==
    /\ Len(executed) <= 1
    /\ (Evaluated /\ (Above1 \/ Above2)) => Len(executed) = 1
    /\ (Evaluated /\ ~Above1 /\ ~Above2) => Len(executed) = 0
    /\ ~Evaluated => Len(executed) = 0

\* A finished cycle in which both directions were above the threshold and one
\* round trip was logged.
C3_Witness ==
    /\ pc = "poll" /\ report.logged
    /\ Above1 /\ Above2
    /\ Len(executed) = 1

\* C4: within one run of the pipeline the stages start in the order Swap1,
\* Bridge1, Swap2, Bridge2, each only after the stage before it has returned,
\* none twice, and every stage after Swap1 is given exactly the amount the
\* stage before it returned.
C4_StagesInOrder ==
    /\ Len(calls) <= 4
    /\ Len(returns) <= Len(calls)
    /\ Len(calls) <= Len(returns) + 1
    /\ \A i \in 1..Len(calls) :
          /\ calls[i].stage = i
          /\ calls[i].name = StageNames[i]
          /\ calls[i].kind = <<"swap", "bridge", "swap", "bridge">>[i]
          /\ calls[i].direction = calls[1].direction
          /\ i > 1 => calls[i].amountIn = returns[i - 1]

\* A run whose four stages were all invoked and have all returned.
C4_Witness ==
    /\ Len(calls) = 4 /\ Len(returns) = 4
    /\ calls[4].name = "Bridge2"
    /\ report.logged

\* C5: when a stage fails, no later stage and no compensating swap or bridge
\* is invoked, the Complete report is not reached, and the error arrives at
\* simulateArbitrage's catch.
C5_FailureAborts ==
    failedAt # 0 =>
        /\ pc = "poll"
        /\ outcome = "error"
        /\ caught # ""
        /\ ~report.logged
        /\ Len(calls) <= failedAt
        /\ \A i \in 1..Len(calls) : calls[i].stage <= failedAt
        /\ Len(returns) = failedAt - 1

\* A mock run that failed at Swap2 after Swap1 and Bridge1 had returned.
C5_Witness ==
    /\ failedAt = 3
    /\ Len(calls) = 3 /\ Len(returns) = 2
    /\ outcome = "error"

\* C6 as stated: in live mode, with the call failing every time, retryAsync
\* has invoked it exactly 3 times when the terminal failure is raised.
C6_ThreeInvocations ==
    (UseLive(cfg) /\ failedAt # 0) => fnCalls = 3

\* C6, amended: retryAsync has invoked the call exactly 4 times - the first
\* call and maxRetries = 3 retries - and slept 1000, 2000 and 4000 ms between
\* them when the terminal failure is raised.
C6_FourInvocations ==
    (cfg.LIVE_MODE /\ failedAt # 0) =>
        /\ fnCalls = 4
        /\ attempt = 4
        /\ waits = <<1000, 2000, 4000>>

\* The live Swap1 has failed for good.
C6_Witness ==
    /\ cfg.LIVE_MODE
    /\ failedAt = 1
    /\ caught = "realSwap not implemented"
    /\ fnCalls > maxRetries

\* C7: with LIVE_MODE false no real handler is ever invoked; with LIVE_MODE
\* true no mock handler is ever invoked.
C7_ModeSeparation ==
    \A i \in 1..Len(calls) :
        IF cfg.LIVE_MODE THEN calls[i].fn \in RealHandlers
                         ELSE calls[i].fn \in MockHandlers

\* A simulated run that invoked all four of its handlers.
C7_Witness ==
    /\ ~cfg.LIVE_MODE
    /\ Len(calls) = 4
    /\ \A i \in 1..4 : calls[i].fn \in MockHandlers

\* C8 as stated: with LIVE_MODE false no stage of the pipeline ever fails and
\* every run that was started reaches the Complete report.
C8_SimulatedNeverFails ==
    ~cfg.LIVE_MODE =>
        /\ failedAt = 0
        /\ (pc = "poll" /\ executed # <<>>) => report.logged

\* C9: every bridge stage that carries USDT uses the Stargate handler and every
\* bridge stage that carries USDC the CCIP handler, in both directions and both
\* modes: in the handlers invoked, and in the handlers simulateExecution names.
C9_BridgePerToken ==
    /\ \A i \in 1..Len(calls) :
          calls[i].kind = "bridge" =>
              /\ calls[i].fromToken = USDT =>
                    calls[i].fn \in { "mockStargateBridge", "realStargateBridge" }
              /\ calls[i].fromToken = USDC =>
                    calls[i].fn \in { "mockCcipBridge", "realCcipBridge" }
    /\ \A d \in { "USDC", "USDT" } : \A i \in { 2, 4 } :
          LET leg == Pipeline(d)[i]
          IN  /\ leg.kind = "bridge"
              /\ leg.fromToken \in { USDC, USDT }
              /\ leg.fromToken = USDT =>
                    leg.mock = "mockStargateBridge" /\ leg.real = "realStargateBridge"
              /\ leg.fromToken = USDC =>
                    leg.mock = "mockCcipBridge" /\ leg.real = "realCcipBridge"
    /\ Pipeline("USDC")[2].venue = "Stargate" /\ Pipeline("USDC")[4].venue = "CCIP"
    /\ Pipeline("USDT")[2].venue = "CCIP" /\ Pipeline("USDT")[4].venue = "Stargate"

\* A run of direction USDT that has bridged USDC by CCIP and USDT by Stargate.
C9_Witness ==
    /\ executed = <<"USDT">>
    /\ Len(calls) = 4
    /\ calls[2].fn = "mockCcipBridge" /\ calls[2].fromToken = USDC
    /\ calls[4].fn = "mockStargateBridge" /\ calls[4].fromToken = USDT

\* C10: an error raised anywhere in a cycle never ends main's loop: main never
\* leaves the loop, and after a failed cycle a next cycle starts.
C10_LoopNeverTerminates ==
    /\ [](pc # "exited")
    /\ (outcome = "error") ~> (pc = "getPharaohPrice" /\ outcome = "running")

\* A cycle that failed in the price conversion, caught, with main in its sleep.
C10_Witness ==
    /\ outcome = "error"
    /\ caught = "RangeError: Exponent must be non-negative"
    /\ pc = "poll"

\* C11: polling cycles never overlap: a cycle's price fetch starts only from
\* main's sleep after the cycle before it has fully finished - evaluated, and
\* every stage it invoked returned or failed - and no two pipeline runs are in
\* progress at any time.
C11_CyclesNeverOverlap ==
    /\ [](/\ Len(executed) <= 1
          /\ pc = "poll" => /\ outcome \in { "noOpportunity", "complete", "error" }
                            /\ failedAt # 0 \/ Len(returns) = Len(calls))
    /\ [][pc' = "getPharaohPrice" =>
             /\ pc = "poll"
             /\ outcome # "running"
             /\ calls' = <<>> /\ executed' = <<>>]_vars

\* A later cycle has started its pipeline after an earlier cycle ended.
C11_Witness ==
    /\ looped
    /\ pc = "awaitStage"
    /\ Len(calls) = 1 /\ Len(returns) = 0

\* The four-step composition C12 states, on the arguments p.
ComposedAfterSwapA(p) ==
    IF ToLowerCase(p.poolA.token0) = ToLowerCase(p.tokenIn)
    THEN NumMul(NumMul(p.startAmount, p.poolA.price), NumSub(One, p.swapFeeA))
    ELSE NumMul(NumDiv(p.startAmount, p.poolA.price), NumSub(One, p.swapFeeA))

ComposedAfterSwapB(p, afterBridgeA) ==
    IF ToLowerCase(p.poolB.token0) = ToLowerCase(p.tokenOut)
    THEN NumMul(NumDiv(afterBridgeA, p.poolB.price), NumSub(One, p.swapFeeB))
    ELSE NumMul(NumMul(afterBridgeA, p.poolB.price), NumSub(One, p.swapFeeB))

ComposedFinalAmount(p) ==
    NumSub(ComposedAfterSwapB(p, NumSub(ComposedAfterSwapA(p), p.bridgeCostA)),
           p.bridgeCostB)

\* C12: simulateDirection returns finalAmount equal to the four-step
\* composition (swap A by token0 = tokenIn ignoring case, else divide; minus
\* bridge cost A without clamping; swap B by token0 = tokenOut; minus bridge
\* cost B) and profit = finalAmount - startAmount; for the unit test's
\* scenario finalAmount is greater than 0.
C12_DirectionComposition ==
    (probe.fn = "simulateDirection" /\ probe.done) =>
        /\ NumEq(probe.out.finalAmount, ComposedFinalAmount(probe.in))
        /\ NumEq(probe.out.profit,
                 NumSub(ComposedFinalAmount(probe.in), probe.in.startAmount))
        /\ probe.in = TestScenario => NumGt(probe.out.finalAmount, Zero)

\* simulateDirection applied to a pool whose token0 is tokenIn in another letter
\* case, with a bridge cost that takes the amount below zero.
C12_Witness ==
    /\ probe.fn = "simulateDirection" /\ probe.done
    /\ probe.in.poolA.token0 # probe.in.tokenIn
    /\ ToLowerCase(probe.in.poolA.token0) = ToLowerCase(probe.in.tokenIn)
    /\ probe.in.poolA.price # One
    /\ NumGt(Zero, probe.out.finalAmount)

\* simulateDirection was applied with zero swap fees and zero bridge costs to
\* two pools whose prices multiply to 1.
ReciprocalFreeRoundTrip ==
    /\ probe.fn = "simulateDirection" /\ probe.done
    /\ probe.in.swapFeeA = Zero /\ probe.in.swapFeeB = Zero
    /\ probe.in.bridgeCostA = Zero /\ probe.in.bridgeCostB = Zero
    /\ NumEq(NumMul(probe.in.poolA.price, probe.in.poolB.price), One)

MatchesA == ToLowerCase(probe.in.poolA.token0) = ToLowerCase(probe.in.tokenIn)
MatchesB == ToLowerCase(probe.in.poolB.token0) = ToLowerCase(probe.in.tokenOut)

\* The tolerance of a comparison of doubles: one part in 10^9 of the scale.
FloatTolerance == Dec(1, 1000000000)

WithinTolerance(x, scale) ==
    x.k = "fin" /\ ~NumGt(NumAbs(x), NumMul(FloatTolerance, NumAbs(scale)))

ProfitVanishes == WithinTolerance(probe.out.profit, probe.in.startAmount)

GetPriceApplied == probe.fn = "getPriceFromSqrtPriceX96BigInt" /\ probe.done

\* sqrtPriceX96^2 * 10^up / (2^192 * 10^down) as a number
PriceOf(sqrtPriceX96, up, down) ==
    MkFin(1, NMul(NMul(sqrtPriceX96, sqrtPriceX96), Pow10(up)),
          NMul(NShl(<<1>>, 192), Pow10(down)))

\* C14: getPriceFromSqrtPriceX96BigInt(2^96, d, d) returns 1 for every d, and
\* for decimalsToken0 >= decimalsToken1 the price returned is the double
\* nearest to sqrtPriceX96^2 * 10^(d0 - d1) / 2^192, the product taken in
\* unbounded integers.
C14_UnitPrice ==
    (GetPriceApplied /\ probe.in.decimalsToken0 >= probe.in.decimalsToken1) =>
        /\ probe.out.ok
        /\ NumEq(probe.out.v,
                 PriceOf(probe.in.sqrtPriceX96,
                         probe.in.decimalsToken0 - probe.in.decimalsToken1, 0))
        /\ (probe.in.sqrtPriceX96 = Q96
                /\ probe.in.decimalsToken0 = probe.in.decimalsToken1)
              => NumEq(probe.out.v, One)

\* The conversion of 2^96 with 18 and 18 decimals has returned 1.
C14_Witness ==
    /\ GetPriceApplied
    /\ probe.in.sqrtPriceX96 = Q96
    /\ probe.in.decimalsToken0 = 18 /\ probe.in.decimalsToken1 = 18
    /\ probe.out.ok /\ NumEq(probe.out.v, One)

\* C15 as stated: with decimalsToken0 < decimalsToken1 the conversion raises
\* no error and returns sqrtPriceX96^2 / (2^192 * 10^(d1 - d0)).
C15_NegativeExponentDivides ==
    (GetPriceApplied /\ probe.in.decimalsToken0 < probe.in.decimalsToken1) =>
        /\ probe.out.ok
        /\ NumEq(probe.out.v,
                 PriceOf(probe.in.sqrtPriceX96, 0,
                         probe.in.decimalsToken1 - probe.in.decimalsToken0))

\* getPriceFromSqrtPriceX96BigInt was applied to two sqrt prices, the first
\* the smaller, and returned a price for both.
GetPriceTwiceReturned ==
    /\ probe.fn = "getPriceFromSqrtPriceX96BigInt twice" /\ probe.done
    /\ probe.out.first.ok /\ probe.out.second.ok

\* C16: for fixed decimals and sqrt prices s1 < s2 the price returned for s1
\* is not greater than the price returned for s2.
C16_PriceMonotone ==
    GetPriceTwiceReturned => ~NumGt(probe.out.first.v, probe.out.second.v)

\* Two sqrt prices whose prices differ, and two (one apart) whose prices are
\* the same double.
C16_Witness ==
    /\ GetPriceTwiceReturned
    /\ \/ NumGt(probe.out.second.v, probe.out.first.v)
          /\ probe.in.first.sqrtPriceX96 = SqrtAt(-1)
          /\ probe.in.second.sqrtPriceX96 = Q96
       \/ NumEq(probe.out.second.v, probe.out.first.v)
          /\ probe.in.first.sqrtPriceX96 = Q96
          /\ probe.in.second.sqrtPriceX96 = NAdd(Q96, <<1>>)

\* applySwapFee was applied to one amount with two fees, fee1 < fee2.
SwapFeeTwiceApplied == probe.fn = "applySwapFee twice" /\ probe.done

\* fees closer than this need not be told apart by doubles
FeeResolution == MkFin(1, <<1>>, Pow10(15))

Quoted == pharaoh # NoQuote /\ shadow # NoQuote

\* A leg of the direction that starts and ends in `token` divides by a pool
\* price of zero: leg A divides unless poolA.token0 is the token, leg B divides
\* when poolB.token0 is the token.
DividesByZeroPrice(token) ==
    \/ pharaoh.price = Zero /\ ToLowerCase(pharaoh.token0) # ToLowerCase(token)
    \/ shadow.price = Zero /\ ToLowerCase(shadow.token0) = ToLowerCase(token)

Finite(d) == d.finalAmount.k = "fin" /\ d.profit.k = "fin"

\* C18 as stated: when a leg of simulateDirection would divide by a zero pool
\* price, an error is signalled instead of a result: no direction result
\* exists, still less an infinite or not-a-number one, the cycle ends in an
\* error and no pipeline is started.
C18_ZeroPriceSignalled ==
    (/\ Quoted
     /\ pc \notin { "getPharaohPrice", "getShadowPrice", "evaluate" }
     /\ DividesByZeroPrice(USDC) \/ DividesByZeroPrice(USDT)) =>
        /\ Evaluated => Finite(dir1) /\ Finite(dir2)
        /\ outcome = "error"
        /\ executed = <<>>

\* A pipeline was started on an infinite profit.
C18_StartedOnInfiniteProfit ==
    /\ Evaluated /\ dir1.profit = Inf(1)
    /\ executed = <<"USDC">> /\ Len(calls) >= 1

\* A contract read of getPharaohPrice or getShadowPrice (slot0, token0,
\* token1, decimals) has failed in this cycle.
LookupFailed == caught = "ContractFunctionExecutionError"

\* C19: when the quote or decimals lookup of either pool fails, the cycle
\* simulates no direction and invokes no swap or bridge, the error is logged,
\* and the next cycle still runs.
C19_LookupFailureSkipsCycle ==
    /\ [](LookupFailed =>
            /\ ~Evaluated /\ dir1 = NoDir /\ dir2 = NoDir
            /\ executed = <<>> /\ calls = <<>> /\ fnCalls = 0
            /\ outcome = "error" /\ pc = "poll")
    /\ (LookupFailed ~> (pc = "getPharaohPrice" /\ looped))

\* The lookup of the second pool failed after the first was quoted.
C19_Witness ==
    /\ LookupFailed
    /\ pharaoh # NoQuote /\ shadow = NoQuote
    /\ pc = "poll"

\* A live stage has failed with its retries exhausted.
FailedAfterRetries == failedAt # 0 /\ UseLive(cfg) /\ RetryExhausted(attempt)

\* The stages of the running pipeline whose failure would be logged with the
\* very error that was logged.
StagesReported ==
    { i \in 1..4 : RealBody(Pipeline(executed[Len(executed)])[i].real).err = caught }

\* C20 as stated: when a stage fails after its retries are exhausted, the
\* failure reported tells which of Swap1, Bridge1, Swap2 and Bridge2 failed
\* (and the amount held): the logged error fits the failed stage and no other.
C20_FailureIdentifiesStage ==
    FailedAfterRetries => StagesReported = { failedAt }

\* Swap1 failed in live mode and the error logged is that of realSwap, which
\* Swap2 would log as well.
C20_AmbiguousReport ==
    /\ FailedAfterRetries /\ failedAt = 1
    /\ caught = "realSwap not implemented"
    /\ StagesReported = { 1, 3 }

\* retryAsync was applied to a scripted fn.
RetryApplied == probe.fn = "retryAsync" /\ probe.done

\* fn fails on each of its first n calls.
FailsFirst(n) == \A i \in 1..n : ~probe.in[i].ok

\* C21: when the call keeps failing, retryAsync waits 1000, 2000 and 4000 ms
\* between consecutive attempts - 1000 * 2^(k-1) ms before retry k - does not
\* wait after the final failed attempt, and throws the error of the last
\* attempt.
C21_BackoffSchedule ==
    (RetryApplied /\ FailsFirst(maxRetries + 1)) =>
        /\ probe.out.waits = <<1000, 2000, 4000>>
        /\ \A k \in 1..Len(probe.out.waits) : probe.out.waits[k] = 1000 * 2^(k - 1)
        /\ Len(probe.out.waits) = probe.out.fnCalls - 1
        /\ probe.out.result = probe.in[probe.out.fnCalls]
        /\ \A i \in 1..(probe.out.fnCalls - 1) : probe.out.result # probe.in[i]

\* Four attempts failed, each with its own error, and the fourth error came
\* out.
C21_Witness ==
    /\ RetryApplied /\ FailsFirst(maxRetries + 1)
    /\ probe.out.fnCalls = 4
    /\ probe.out.result = Throw("error 4")

\* C30: when an attempt inside retryAsync succeeds, its result is returned at
\* once: fn is not invoked again and no backoff wait follows, so that the
\* waits are as many as the failed attempts before the success.
C30_SuccessReturnsAtOnce ==
    \A k \in 1..(maxRetries + 1) :
        (RetryApplied /\ FailsFirst(k - 1) /\ probe.in[k].ok) =>
            /\ probe.out.result = probe.in[k]
            /\ probe.out.fnCalls = k
            /\ Len(probe.out.waits) = k - 1

\* The third attempt succeeded after two failures and two waits, and a later
\* call of fn would have failed.
C30_Witness ==
    /\ RetryApplied /\ FailsFirst(2) /\ probe.in[3].ok /\ ~probe.in[4].ok
    /\ probe.out.result = Ok(Dec(3, 1))
    /\ probe.out.fnCalls = 3
    /\ probe.out.waits = <<1000, 2000>>

\* simulateDirection on this cycle's quotes, Pharaoh as pool A and Shadow as
\* pool B, from the configured start amount in `token`, with the given bridge
\* costs on leg A and leg B.
EstimateWithFactor(token, label, costA, costB, factor) ==
    simulateDirection([ startAmount |-> cfg.START_USDC,
                        poolA |-> pharaoh, poolB |-> shadow,
                        swapFeeA |-> cfg.FEES.PHARAOH, swapFeeB |-> cfg.FEES.SHADOW,
                        bridgeCostA |-> costA, bridgeCostB |-> costB,
                        directionLabel |-> label,
                        tokenIn |-> token, tokenOut |-> token,
                        minAmountOutFactor |-> factor ])

\* the same with the default of simulateDirection, minAmountOutFactor = 0.995
EstimateWith(token, label, costA, costB) ==
    EstimateWithFactor(token, label, costA, costB, Dec(995, 1000))

\* C22: the two direction simulations of a cycle use the same two quotes
\* (Pharaoh as pool A, Shadow as pool B) and the same start amount; the
\* USDC-starting direction pays the USDT bridge cost on leg A and the USDC
\* bridge cost on leg B, the USDT-starting direction the USDC bridge cost on
\* leg A and the USDT bridge cost on leg B.  (Looked at when the estimates
\* have just been made, before any stage runs.)
C22_BridgeCostAssignment ==
    (Evaluated /\ calls = <<>>) =>
        /\ dir1 = EstimateWith(USDC, "USDC->USDT->USDC",
                               cfg.FEES.BRIDGE_USDT, cfg.FEES.BRIDGE_USDC)
        /\ dir2 = EstimateWith(USDT, "USDT->USDC->USDT",
                               cfg.FEES.BRIDGE_USDC, cfg.FEES.BRIDGE_USDT)
        /\ dir1.startAmount = dir2.startAmount

\* The two bridge costs differ and the assignment shows in both estimates:
\* either would come out differently with the costs the other way round.
C22_Witness ==
    /\ Evaluated
    /\ cfg.FEES.BRIDGE_USDT # cfg.FEES.BRIDGE_USDC
    /\ dir1.finalAmount.k = "fin" /\ dir2.finalAmount.k = "fin"
    /\ dir1.finalAmount # EstimateWith(USDC, "USDC->USDT->USDC", cfg.FEES.BRIDGE_USDC,
                                       cfg.FEES.BRIDGE_USDT).finalAmount
    /\ dir2.finalAmount # EstimateWith(USDT, "USDT->USDC->USDT", cfg.FEES.BRIDGE_USDT,
                                       cfg.FEES.BRIDGE_USDC).finalAmount

\* C23: when all four stages succeed, the pipeline reports as final amount
\* the amountReceived that Bridge2 returned and as net profit that amount
\* minus START_USDC, in both directions.
C23_ReportIsBridge2 ==
    report.logged =>
        /\ Len(returns) = 4 /\ Len(calls) = 4
        /\ calls[4].name = "Bridge2"
        /\ report.direction = calls[4].direction
        /\ report.finalAmount = returns[4]
        /\ report.finalAmount = NumSub(calls[4].amountIn, simulatedCost)
        /\ report.profit = NumSub(returns[4], cfg.START_USDC)

\* A round trip of the USDT direction was reported with a loss.
C23_Witness ==
    /\ report.logged /\ report.direction = "USDT"
    /\ outcome = "complete"
    /\ report.finalAmount = returns[4]
    /\ NumGt(Zero, report.profit)

\* The estimates of this cycle as a run with another minAmountOutFactor makes
\* them.
Dir1WithFactor(factor) ==
    EstimateWithFactor(USDC, "USDC->USDT->USDC", cfg.FEES.BRIDGE_USDT,
                       cfg.FEES.BRIDGE_USDC, factor)

Dir2WithFactor(factor) ==
    EstimateWithFactor(USDT, "USDT->USDC->USDT", cfg.FEES.BRIDGE_USDC,
                       cfg.FEES.BRIDGE_USDT, factor)

\* minAmountOutFactor of the other run: none, and twice the start
OtherFactors == { Zero, Dec(2, 1) }

\* e is d but for minAmountOut, which is startAmount * factor.
DiffersInMinAmountOutOnly(d, e, factor) ==
    /\ e = [d EXCEPT !.minAmountOut = NumMul(cfg.START_USDC, factor)]
    /\ e.finalAmount = d.finalAmount /\ e.profit = d.profit

\* e1 and e2, the estimates of a run with minAmountOutFactor = factor, differ
\* from dir1 and dir2 in minAmountOut only and lead to the choice made here.
SameOutcome(e1, e2, factor) ==
    /\ DiffersInMinAmountOutOnly(dir1, e1, factor)
    /\ DiffersInMinAmountOutOnly(dir2, e2, factor)
    /\ ExecutionPlan(e1, e2, cfg.PROFIT_THRESHOLD) = executed \o plan

\* C24: minAmountOutFactor has no influence on the outcome.  A run that
\* differs from this one only in minAmountOutFactor gets the same finalAmount
\* and profit from simulateDirection and makes the same choice of direction;
\* minAmountOut is startAmount * minAmountOutFactor; and the stages run with
\* the amounts the handlers return from START_USDC on, whatever minAmountOut
\* is.
C24_MinAmountOutIgnored ==
    /\ (Evaluated /\ calls = <<>>) =>
            /\ dir1.minAmountOut = NumMul(cfg.START_USDC, Dec(995, 1000))
            /\ dir2.minAmountOut = NumMul(cfg.START_USDC, Dec(995, 1000))
            /\ \A f \in OtherFactors :
                   SameOutcome(Dir1WithFactor(f), Dir2WithFactor(f), f)
    /\ \A i \in 1..Len(calls) :
           calls[i].amountIn = IF calls[i].stage = 1 THEN cfg.START_USDC
                                                     ELSE returns[i - 1]

\* A round trip ran to its report on amounts below the minAmountOut of the
\* estimate that chose it.
C24_Witness ==
    /\ report.logged /\ executed = <<"USDC">>
    /\ dir1.minAmountOut = Dec(995, 100)
    /\ \A i \in 1..4 : NumGt(dir1.minAmountOut, returns[i])

\* C25: within one run of the pipeline every stage resolves in the same
\* execution mode: no run has a mock stage and a live stage.
C25_OneModePerRun ==
    \A i, j \in 1..Len(calls) :
        /\ calls[i].fn \in MockHandlers \cup RealHandlers
        /\ calls[i].direction = calls[j].direction =>
               (calls[i].fn \in RealHandlers <=> calls[j].fn \in RealHandlers)

\* A run went through its four stages, each with the handler of one mode.
C25_Witness ==
    /\ report.logged /\ Len(calls) = 4
    /\ { calls[i].fn : i \in 1..4 } = { "mockSwap", "mockStargateBridge", "mockCcipBridge" }

\* mockSwap was applied and returned a result.
MockSwapReturned == probe.fn = "mockSwap" /\ probe.done /\ probe.out.ok

\* amountOutBeforeFeeBN of the call, in micro-units
BeforeFee ==
    mockSwapBeforeFee(MockSwapArgs(probe.in),
                      bn(Dec(probe.in.amountIn[1], probe.in.amountIn[2]), 6).v,
                      bn(Dec(probe.in.price[1], probe.in.price[2]), 6).v).v

\* the slippage of the call as a literal: 0.0005 when none was passed
SlippageLiteral == IF probe.in.slippage = <<>> THEN <<5, 10000>> ELSE probe.in.slippage

\* 1 - fee as a literal
FeeFactorLiteral == << probe.in.fee[2] - probe.in.fee[1], probe.in.fee[2] >>

\* floor(a * n / d) for the literal x = <<n, d>>
FloorTimes(a, x) == NDivMod(NMul(a, NatOf(x[1])), NatOf(x[2])).q

\* the literal x = <<n, d>> in micro-units, rounded half up
MicroUnits(x) ==
    NDivMod(NAdd(NMulSmall(NMul(NatOf(x[1]), Pow10(6)), 2), NatOf(x[2])),
            NMulSmall(NatOf(x[2]), 2)).q

\* floor(a * u / 10^6) for a factor u in micro-units
FloorTimesMicro(a, u) == NDivMod(NMul(a, u), Pow10(6)).q

\* afterFee - floor(afterFee * slippage), as stated and with the slippage in
\* micro-units
LessSlippage(afterFee, slippage) == NSub(afterFee, FloorTimes(afterFee, slippage))

LessSlippageMicro(afterFee, u) == NSub(afterFee, FloorTimesMicro(afterFee, u))

\* C26 as stated: in 6-decimal integer units, amountOut = afterFee -
\* floor(afterFee * slippage) with afterFee = floor(beforeFee * (1 - fee)),
\* slippage 0.0005 by default, and amountOut is never greater than the
\* before-fee amount.
C26_SlippageAfterFeeAsStated ==
    MockSwapReturned =>
        /\ probe.out.v.amountOut =
               bnToNum(Big(1, LessSlippage(FloorTimes(BeforeFee.m, FeeFactorLiteral),
                                           SlippageLiteral)), 6)
        /\ ~NumGt(probe.out.v.amountOut, bnToNum(BeforeFee, 6))

\* C26, amended: 1 - fee and the slippage enter as 6-decimal integers,
\* rounded half up: amountOut = afterFee - floor(afterFee * s / 10^6) with
\* afterFee = floor(beforeFee * f / 10^6), f = round(10^6 * (1 - fee)) and
\* s = round(10^6 * slippage), slippage 0.0005 by default; whenever mockSwap
\* returns, amountOut is not negative and never greater than the before-fee
\* amount.
C26_SlippageAfterFee ==
    MockSwapReturned =>
        /\ probe.out.v.amountOut =
               bnToNum(Big(1, LessSlippageMicro(
                                  FloorTimesMicro(BeforeFee.m, MicroUnits(FeeFactorLiteral)),
                                  MicroUnits(SlippageLiteral))), 6)
        /\ ~NumGt(probe.out.v.amountOut, bnToNum(BeforeFee, 6))
        /\ ~NumGt(Zero, probe.out.v.amountOut)

\* 10 USDC at price 1 with a fee of 4e-7 and the default slippage: the fee is
\* rounded away and 9.995 comes out, where the stated formula gives 9.994997.
C26_Witness ==
    /\ MockSwapReturned
    /\ probe.in.amountIn = <<10, 1>> /\ probe.in.price = <<1, 1>>
    /\ probe.in.fee = <<4, 10000000>> /\ probe.in.slippage = <<>>
    /\ probe.in.tokens = <<USDC, USDT>>
    /\ probe.out.v.amountOut = Dec(9995, 1000)
    /\ LessSlippage(FloorTimes(BeforeFee.m, FeeFactorLiteral), SlippageLiteral)
           = NatOf(9994997)

\* x and y differ by no more than `permille` thousandths of the start amount:
\* the room that two slippages of 0.05 % and the truncation to 6 decimals need.
Near(x, y, permille) ==
    ~NumGt(NumAbs(NumSub(x, y)), NumMul(cfg.START_USDC, Dec(permille, 1000)))

\* The bridge cost of config.ts for a token.
BridgeCostOf(token) ==
    IF ToLowerCase(token) = ToLowerCase(USDT) THEN cfg.FEES.BRIDGE_USDT
                                              ELSE cfg.FEES.BRIDGE_USDC

\* What the per-leg model of simulateDirection makes of the input of the
\* i-th stage that ran: leg A multiplies by Pharaoh's price when Pharaoh's
\* token0 is the start token and divides otherwise, leg B divides by Shadow's
\* price when Shadow's token0 is the end token and multiplies otherwise, and
\* each bridge deducts the bridge cost of the token it carries.
EstimatedLeg(i) ==
    IF calls[i].stage = 1
    THEN applySwapFee(IF ToLowerCase(pharaoh.token0) = ToLowerCase(calls[i].fromToken)
                      THEN NumMul(calls[i].amountIn, pharaoh.price)
                      ELSE NumDiv(calls[i].amountIn, pharaoh.price), cfg.FEES.PHARAOH)
    ELSE IF calls[i].stage = 3
    THEN applySwapFee(IF ToLowerCase(shadow.token0) = ToLowerCase(calls[i].toToken)
                      THEN NumDiv(calls[i].amountIn, shadow.price)
                      ELSE NumMul(calls[i].amountIn, shadow.price), cfg.FEES.SHADOW)
    ELSE NumSub(calls[i].amountIn, BridgeCostOf(calls[i].fromToken))

\* The estimate of the direction that is being executed.
ChosenEstimate == IF executed[Len(executed)] = "USDC" THEN dir1 ELSE dir2

\* C27 as stated: in simulated mode every stage of the executed round trip
\* follows the per-leg model of the estimate that selected it - each mock
\* swap applies the pool price in the sense simulateDirection used for that
\* leg, whichever token is the pool's token0, and each mock bridge deducts the
\* bridge cost of config.ts - so that the final amount reported differs from
\* the estimated finalAmount by the slippage and the truncation only.
C27_ExecutionFollowsEstimate ==
    ~UseLive(cfg) =>
        /\ \A i \in 1..Len(returns) : Near(returns[i], EstimatedLeg(i), 1)
        /\ report.logged => Near(report.finalAmount, ChosenEstimate.finalAmount, 3)

\* Pharaoh's pool has USDT as token0 at a price above 1.03: the estimate of
\* the USDC direction divided 10 USDC by it, the mock swap multiplied, and the
\* round trip was reported more than 3 % of the start amount away from the
\* estimate that chose it.
C27_ExecutedAgainstEstimate ==
    /\ ~UseLive(cfg) /\ report.logged /\ executed = <<"USDC">>
    /\ ToLowerCase(pharaoh.token0) = ToLowerCase(USDT)
    /\ NumGt(pharaoh.price, Dec(103, 100))
    /\ NumGt(Dec(10, 1), EstimatedLeg(1)) /\ NumGt(returns[1], Dec(103, 10))
    /\ ~Near(report.finalAmount, dir1.finalAmount, 30)

\* C28: in live mode, with the handlers as they are, every run of the
\* pipeline ends in failure at Swap1: Bridge1, Swap2 and Bridge2 are never
\* invoked and no run reaches the Round-trip complete report.
C28_LiveFailsAtSwap1 ==
    UseLive(cfg) =>
        /\ \A i \in 1..Len(calls) : calls[i].name = "Swap1" /\ calls[i].fn = "realSwap"
        /\ Len(calls) <= 1 /\ returns = <<>>
        /\ stage <= 1 /\ failedAt \in { 0, 1 }
        /\ ~report.logged /\ outcome # "complete"
        /\ (executed # <<>> /\ pc = "poll") => (failedAt = 1 /\ outcome = "error")

\* A live run of the USDT direction has ended at Swap1 after four calls of
\* realSwap's body.
C28_Witness ==
    /\ UseLive(cfg) /\ executed = <<"USDT">>
    /\ pc = "poll" /\ outcome = "error" /\ failedAt = 1
    /\ Len(calls) = 1 /\ fnCalls = 4

\* simulateExecution has been called in this cycle and has neither returned
\* nor thrown.
InPipeline == executed # <<>> /\ outcome = "running"

\* C29: every run of the pipeline that is started ends, Complete or Failed:
\* a stage returns or fails after at most maxRetries + 1 attempts and
\* maxRetries waits, so that no cycle stays inside the pipeline for ever and
\* main reaches its next cycle.
C29_PipelineEnds ==
    /\ [](fnCalls <= maxRetries + 1 /\ Len(waits) <= maxRetries /\ Len(calls) <= 4)
    /\ (InPipeline ~> (pc = "poll" /\ outcome \in { "complete", "error" }))
    /\ (InPipeline ~> (pc = "getPharaohPrice" /\ looped /\ executed = <<>>))

\* A live run is inside retryAsync, asleep before its last attempt.
C29_Witness ==
    /\ InPipeline /\ pc = "retrySleep"
    /\ fnCalls = maxRetries /\ waits = <<1000, 2000, 4000>>

====
